---- MODULE Spec2Model ----
(***************************************************************************)
(* Model of the Deribit risk monitor: the observation store                *)
(* (state_store.py), the alert evaluator (monitor.py) and the JSON-RPC     *)
(* client (deribit_client.py).                                             *)
(*                                                                         *)
(* Time is in whole seconds.  Gamma magnitudes are in units of 1e-5, so    *)
(* the default thresholds 0.0001 / 0.0005 / 0.001 read 10 / 50 / 100.      *)
(***************************************************************************)
EXTENDS Integers, Sequences, FiniteSets, TLC

VARIABLES
    clock,              \* time.time()
    state,              \* StateStore.state without "last_alert_times": key -> series
    last_alert_times,   \* StateStore.state["last_alert_times"]: alert key -> time
    lastSet,            \* the arguments of the most recent StateStore.set call
    prevSet,            \* the arguments of the set call before it
    lastOp,             \* the store method that returned last
    nsets,              \* number of store calls made (bounds the exploration)
    pc,                 \* Monitor.run: "idle", "positions", "dvol" or "check_dvol"
    current_time,       \* Monitor.run: the cycle time read at the start of the cycle
    all_positions,      \* Monitor.run: the positions not yet checked in this cycle
    dvol_data,          \* Monitor.run: the result of get_btc_dvol, <<>> is None
    cycles,             \* number of completed cycles
    cycle_result,       \* how the last cycle ended: "completed" or "caught"
    enable_alert,       \* config alert.enable_alert
    cooldown_seconds,   \* config alert.cooldown_seconds
    specific_values,    \* config thresholds.dvol.dvol_value.specific_values, in tenths
    option_thresholds,  \* config option_greeks_thresholds: "mapping", or "null" when the key has no value
    dvol_thresholds,    \* config dvol_thresholds: "mapping", or "null" when the key has no value
    alerts,             \* every alert candidate decided so far, in order
    failures,           \* number of deliveries the notification channel has failed
    slept,              \* number of requests of the cycles that slept between attempts
    writes,             \* the StateStore.set calls of the current cycle, in order
    trend,              \* what _check_dvol logged of the comparison in this cycle, <<>> if nothing
    level_metric,       \* level classification: "none", "gamma" or "vega"
    level_value,        \* level classification: the signed metric of the position
    thresholds,         \* level classification: <<light, medium, heavy>>
    severity,           \* level classification: the matched tier, <<>> is no alert
    token,              \* DeribitClient.token, <<>> is None
    token_expires_at,   \* DeribitClient.token_expires_at
    request_id,         \* DeribitClient.request_id
    issued,             \* number of access tokens the exchange has issued
    cpc,                \* _make_request: "idle", "preauth", "attempt" or "reauth"
    method_name,        \* _make_request: the method of the call in progress
    attempt,            \* _make_request: the loop index
    auth_attempt,       \* the loop index of the _make_request under authenticate
    bearer,             \* _make_request: the Authorization header, <<>> is absent
    body_id,            \* _make_request: request_body["id"]
    valid_at_start,     \* whether the call found a token that had not expired
    last_auth,          \* when the last successful authentication happened, and its expires_in
    sent,               \* the transmissions of the call, with their outcomes
    sleeps,             \* the time.sleep waits of the call
    result,             \* "none", "pending", "failure" or "value"
    ncalls,             \* number of calls begun
    lookup,             \* the last get_value_at_time call and what it returned
    file,               \* the snapshot file of the store
    raw_result,         \* what private/get_positions returned, <<>> before the query
    order_books,        \* what public/get_order_book returns for each record
    option_positions,   \* what get_account_option_positions returned
    raw_dvol,           \* what public/get_volatility_index_data returned, <<>> before the query
    query_results,      \* what _make_request returned to the cycle's currency queries, in order
    peer,               \* a second StateStore on the same snapshot file
    procs               \* where each of the two processes is in its call of the store

storeVars == <<state, last_alert_times, lastSet, prevSet, lastOp, nsets>>
configVars == <<enable_alert, cooldown_seconds, specific_values, option_thresholds,
                dvol_thresholds>>
monVars == <<pc, current_time, all_positions, dvol_data, cycles, cycle_result,
             configVars, alerts, failures, slept, writes, trend>>
levelVars == <<level_metric, level_value, thresholds, severity>>
clientVars == <<token, token_expires_at, request_id, issued, cpc, method_name, attempt,
                auth_attempt, bearer, body_id, valid_at_start, last_auth, sent, sleeps, result,
                ncalls>>
lookupVars == <<lookup>>
persistVars == <<file, peer, procs>>
posVars == <<raw_result, order_books, option_positions, raw_dvol, query_results>>
vars == <<clock, storeVars, monVars, levelVars, clientVars, lookupVars, persistVars, posVars>>

-----------------------------------------------------------------------------
(* Bounds of the exploration *)
MaxSets == 3
MaxCycles == 2
MaxFailures == 1
MaxThreshold == 3
MaxCalls == 1
MaxHistory == 3
MaxRecords == 2
MaxSlept == 1

(* The clock reading at construction *)
StartTime == 5000

-----------------------------------------------------------------------------
(* Helpers *)
Abs(x) == IF x < 0 THEN -x ELSE x

RECURSIVE SelectSeqBy(_, _)
\* list comprehension [item for item in history if keep[item]], keep given as a set of timestamps' predicate
SelectSeqBy(s, lo) ==
    IF s = <<>> THEN <<>>
    ELSE IF Head(s).timestamp >= lo
         THEN <<Head(s)>> \o SelectSeqBy(Tail(s), lo)
         ELSE SelectSeqBy(Tail(s), lo)

RECURSIVE DropNear(_, _)
\* [h for h in history if abs(h["timestamp"] - timestamp) > 1]
DropNear(s, timestamp) ==
    IF s = <<>> THEN <<>>
    ELSE IF Abs(Head(s).timestamp - timestamp) > 1
         THEN <<Head(s)>> \o DropNear(Tail(s), timestamp)
         ELSE DropNear(Tail(s), timestamp)

RECURSIVE InsertSorted(_, _)
\* position of e in a stable sort: after every entry whose timestamp is <= e's
InsertSorted(s, e) ==
    IF s = <<>> THEN <<e>>
    ELSE IF Head(s).timestamp <= e.timestamp
         THEN <<Head(s)>> \o InsertSorted(Tail(s), e)
         ELSE <<e>> \o s

RECURSIVE SortByTimestamp(_)
\* history.sort(key=lambda x: x["timestamp"]): a stable sort
SortByTimestamp(s) ==
    IF s = <<>> THEN <<>>
    ELSE InsertSorted(SortByTimestamp(SubSeq(s, 1, Len(s) - 1)), s[Len(s)])

\* the timestamps of a series in the order the store keeps them
RECURSIVE SetToSortedSeq(_)
SetToSortedSeq(S) ==
    IF S = {} THEN <<>>
    ELSE LET m == CHOOSE x \in S : \A y \in S : x <= y
         IN <<m>> \o SetToSortedSeq(S \ {m})

-----------------------------------------------------------------------------
(* StateStore *)

\* self.state is one dictionary: the series under their keys and the cooldown
\* table under "last_alert_times".  The model holds the two parts in the
\* variables state and last_alert_times, and every method works on the whole
\* dictionary; an empty table stands for a dictionary without the key.
TableKey == "last_alert_times"

\* Keys the store is called with: an ordinary series, a key that starts with
\* an underscore, and the key of the cooldown table.
StoreKeys == {"A", "_meta", TableKey}

\* key.startswith("_")
StartsWithUnderscore(key) == Len(key) >= 1 /\ SubSeq(key, 1, 1) = "_"

\* "if key.startswith("_") or key == "last_alert_times": continue"
Skipped(key) == StartsWithUnderscore(key) \/ key = TableKey

max_history_minutes == 60

Entry(value, timestamp) == [value |-> value, timestamp |-> timestamp]

\* '"history" in data' and the like: a dictionary is a function on its keys
Has(data, field) == field \in DOMAIN data

\* isinstance(data, dict): a value of the store that is not an object is
\* held as [scalar |-> v]
IsDict(data) == ~Has(data, "scalar")

\* data[field] = v
With(data, field, v) ==
    [f \in DOMAIN data \cup {field} |-> IF f = field THEN v ELSE data[f]]

\* self.state of a store whose series are st and whose cooldown table is lat
Whole(st, lat) == IF DOMAIN lat = {} THEN st ELSE With(st, TableKey, lat)
\* the series and the cooldown table of self.state
SeriesOf(whole) == [key \in DOMAIN whole \ {TableKey} |-> whole[key]]
TableOf(whole) == IF TableKey \in DOMAIN whole THEN whole[TableKey] ELSE << >>

\* _cleanup_old_data for one key: the pruned series
CleanupHistoryWrong(data, cutoff_time) == data
CleanupHistory(data, cutoff_time) ==
    [data EXCEPT !.history = SelectSeqBy(data.history, cutoff_time)]

\* if not data["history"] and "latest" not in data: del self.state[key]
DeletesKeyWrong(data) == data.history = <<>>
DeletesKey(data) == data.history = <<>> /\ ~Has(data, "latest")

\* a single record: "if data.get("timestamp", 0) < cutoff_time: del self.state[key]"
DeletesRecord(data, cutoff_time) == data.timestamp < cutoff_time

\* _cleanup_old_data: the keys that start with an underscore and the key of
\* the cooldown table are skipped; a dictionary with a "history" is pruned,
\* and deleted when the pruned history is empty and it has no "latest";
\* otherwise a dictionary with a "timestamp" is a single record, deleted when
\* older than the cutoff; any other value stays as it is
_cleanup_old_data(st, now) ==
    LET cutoff_time == now - (max_history_minutes * 60)
        series(key) == ~Skipped(key) /\ IsDict(st[key]) /\ Has(st[key], "history")
        record(key) == /\ ~Skipped(key) /\ IsDict(st[key])
                       /\ ~Has(st[key], "history") /\ Has(st[key], "timestamp")
        pruned(key) == IF series(key) THEN CleanupHistory(st[key], cutoff_time)
                       ELSE st[key]
        deleted(key) == \/ series(key) /\ DeletesKey(pruned(key))
                        \/ record(key) /\ DeletesRecord(st[key], cutoff_time)
    IN [key \in {k \in DOMAIN st : ~deleted(k)} |-> pruned(key)]

\* the in-memory part of StateStore.set, before save_state
SetHistoryWrong(history, value, timestamp) ==
    SortByTimestamp(Append(history, Entry(value, timestamp)))
SetHistory(history, value, timestamp) ==
    SortByTimestamp(Append(DropNear(history, timestamp), Entry(value, timestamp)))

\* {"latest": {...}, "history": [{...}]}
NewSeries(value, timestamp) ==
    [latest |-> Entry(value, timestamp), history |-> <<Entry(value, timestamp)>>]

\* self.state[key].get("history", [])
HistoryOrEmpty(data) == IF Has(data, "history") THEN data.history ELSE <<>>

\* a key that is new, or holds a value that is not a dictionary, gets a new
\* series; a dictionary gets "latest" and "history" beside what it holds
SetInMemory(st, key, value, timestamp) ==
    IF key \notin DOMAIN st THEN With(st, key, NewSeries(value, timestamp))
    ELSE IF IsDict(st[key])
    THEN With(st, key,
              With(With(st[key], "latest", Entry(value, timestamp)),
                   "history", SetHistory(HistoryOrEmpty(st[key]), value, timestamp)))
    ELSE With(st, key, NewSeries(value, timestamp))

\* StateStore.set followed by its save_state, which prunes at time now
StoreSet(st, key, value, timestamp, now) ==
    _cleanup_old_data(SetInMemory(st, key, value, timestamp), now)

\* get_history(key, minutes) evaluated at time now: the entries of the
\* history inside the window, or the single record when it is
get_history(st, key, minutes, now) ==
    IF key \notin DOMAIN st THEN <<>>
    ELSE LET data == st[key]
             cutoff_time == now - (minutes * 60)
         IN IF IsDict(data) /\ Has(data, "history")
            THEN SelectSeqBy(data.history, cutoff_time)
            ELSE IF IsDict(data) /\ Has(data, "timestamp") /\ data.timestamp >= cutoff_time
            THEN <<data>>
            ELSE <<>>

\* get_latest(key): the last entry of the history sorted by timestamp, or
\* the value itself when it holds a "value" and a "timestamp"; <<>> is None
get_latest(st, key) ==
    IF key \notin DOMAIN st THEN <<>>
    ELSE LET data == st[key] IN
         IF IsDict(data) /\ Has(data, "history") /\ data.history # <<>>
         THEN LET history == SortByTimestamp(data.history) IN
              <<Entry(history[Len(history)].value, history[Len(history)].timestamp)>>
         ELSE IF IsDict(data) /\ Has(data, "value") /\ Has(data, "timestamp")
         THEN <<data>>
         ELSE <<>>

\* get_last_alert_time: <<>> is None
get_last_alert_timeWrong(lat, alert_key) ==
    IF DOMAIN lat # {} THEN <<lat[CHOOSE k \in DOMAIN lat : TRUE]>> ELSE <<>>
get_last_alert_time(lat, alert_key) ==
    IF alert_key \in DOMAIN lat THEN <<lat[alert_key]>> ELSE <<>>

\* self.state["last_alert_times"][alert_key] = timestamp
SetLastAlert(lat, alert_key, timestamp) == With(lat, alert_key, timestamp)

\* the in-memory part of set_last_alert_time, before save_state
SetLastAlertInMemory(st, alert_key, timestamp) ==
    With(st, TableKey, SetLastAlert(TableOf(st), alert_key, timestamp))

\* set_last_alert_time followed by its save_state, which prunes at time now
StoreSetLastAlert(st, alert_key, timestamp, now) ==
    _cleanup_old_data(SetLastAlertInMemory(st, alert_key, timestamp), now)

\* the history the store holds for key, empty when it holds none
HistoryOf(key) ==
    LET whole == Whole(state, last_alert_times) IN
    IF key \in DOMAIN whole THEN HistoryOrEmpty(whole[key]) ELSE <<>>

-----------------------------------------------------------------------------
(* The store driven directly through its public methods *)

StoreValues == {1, 2}
TimestampOffsets == {0, 1, 2, 3601}
ClockSteps == {0, 3599}
StoreAlertKeys == {"A_gamma_level_light", "dvol_change"}

NoSet == [key |-> "", value |-> 0, timestamp |-> 0, now |-> 0]

InitStore ==
    /\ state = << >>
    /\ last_alert_times = << >>
    /\ lastSet = NoSet
    /\ prevSet = NoSet
    /\ lastOp = "none"
    /\ nsets = 0

\* the dictionary a method leaves is held as the series and the table
Hold(whole) ==
    /\ state' = SeriesOf(whole)
    /\ last_alert_times' = TableOf(whole)

\* StateStore.set(key, value, timestamp) called at clock reading clock + d
Set(key, value, off, d) ==
    /\ nsets < MaxSets
    /\ clock' = clock + d
    /\ Hold(StoreSet(Whole(state, last_alert_times), key, value, clock' - off, clock'))
    /\ lastSet' = [key |-> key, value |-> value, timestamp |-> clock' - off, now |-> clock']
    /\ prevSet' = lastSet
    /\ lastOp' = "set"
    /\ nsets' = nsets + 1

\* StateStore.set_last_alert_time(alert_key, timestamp), with its save_state
SetLastAlertTime(alert_key, d) ==
    /\ nsets < MaxSets
    /\ clock' = clock + d
    /\ Hold(StoreSetLastAlert(Whole(state, last_alert_times), alert_key, clock', clock'))
    /\ lastOp' = "set_last_alert_time"
    /\ nsets' = nsets + 1
    /\ UNCHANGED <<lastSet, prevSet>>

\* no monitor runs on the store
IdleMonitor ==
    /\ pc = "idle"
    /\ current_time = 0
    /\ all_positions = <<>>
    /\ dvol_data = <<>>
    /\ cycles = 0
    /\ cycle_result = "none"
    /\ enable_alert = TRUE
    /\ cooldown_seconds = 300
    /\ specific_values = <<>>
    /\ option_thresholds = "mapping"
    /\ dvol_thresholds = "mapping"
    /\ alerts = <<>>
    /\ failures = 0
    /\ slept = 0
    /\ writes = <<>>
    /\ trend = <<>>

\* no level classification is exercised
IdleLevels ==
    /\ level_metric = "none"
    /\ level_value = 0
    /\ thresholds = <<0, 0, 0>>
    /\ severity = <<>>

\* the snapshot file is not followed
NoFile == [status |-> "missing", exists |-> "false", text |-> <<>>, extra |-> 0,
           saved |-> "none"]
\* no second store is constructed on the file
NoPeer == [state |-> << >>, last_alert_times |-> << >>]
NoProc == [pc |-> "unstarted", op |-> "none", key |-> "", time |-> 0]
NoProcs == [own |-> NoProc, peer |-> NoProc]
IdlePersist == file = NoFile /\ peer = NoPeer /\ procs = NoProcs

\* get_account_option_positions has not been called
IdlePositions ==
    /\ raw_result = <<>>
    /\ order_books = <<>>
    /\ option_positions = <<>>
    /\ raw_dvol = <<>>
    /\ query_results = <<>>

\* get_value_at_time has not been called
NoLookup == [key |-> "", target_time |-> 0, now |-> 0, value |-> <<>>]
IdleLookup == lookup = NoLookup

\* no client call is made
IdleClient ==
    /\ token = <<>>
    /\ token_expires_at = 0
    /\ request_id = 0
    /\ issued = 0
    /\ cpc = "idle"
    /\ method_name = ""
    /\ attempt = 0
    /\ auth_attempt = 0
    /\ bearer = <<>>
    /\ body_id = 0
    /\ valid_at_start = FALSE
    /\ last_auth = <<>>
    /\ sent = <<>>
    /\ sleeps = <<>>
    /\ result = "none"
    /\ ncalls = 0

InitS ==
    /\ clock = StartTime /\ InitStore /\ IdleMonitor /\ IdleLevels /\ IdleClient
    /\ IdleLookup /\ IdlePersist /\ IdlePositions

NextS ==
    \/ /\ \E key \in StoreKeys, value \in StoreValues, off \in TimestampOffsets, d \in ClockSteps :
              Set(key, value, off, d)
       /\ UNCHANGED <<monVars, levelVars, clientVars, lookupVars, persistVars, posVars>>
    \/ /\ \E alert_key \in StoreAlertKeys, d \in ClockSteps : SetLastAlertTime(alert_key, d)
       /\ UNCHANGED <<monVars, levelVars, clientVars, lookupVars, persistVars, posVars>>

SpecStore == InitS /\ [][NextS]_vars

-----------------------------------------------------------------------------
(* Monitor: the alert evaluator *)

\* option_greeks_thresholds defaults; Gamma in units of 1e-5
gamma_level_1_light == 10
gamma_level_2_medium == 50
gamma_level_3_heavy == 100
vega_level_1_light == 10
vega_level_2_medium == 30
vega_level_3_heavy == 50

\* dvol_thresholds defaults; DVOL in units of 0.1 point
abs_value_threshold == 600
pct_threshold_percent == 5
abs_change_threshold == 50
specific_value_tolerance == 5
\* specific_values as configured: the default [] or the one target 70.0
SpecificValueChoices == {<<>>, <<700>>}

\* the if / elif chain of _check_gamma_levels: <<>> is "no level"
GammaSeverityWrong(gamma, level_1, level_2, level_3) ==
    LET gamma_value == Abs(gamma) IN
    IF gamma_value >= level_1 THEN <<"light">>
    ELSE IF gamma_value >= level_2 THEN <<"medium">>
    ELSE IF gamma_value >= level_3 THEN <<"heavy">>
    ELSE <<>>
GammaSeverity(gamma, level_1, level_2, level_3) ==
    LET gamma_value == Abs(gamma) IN
    IF gamma_value >= level_3 THEN <<"heavy">>
    ELSE IF gamma_value >= level_2 THEN <<"medium">>
    ELSE IF gamma_value >= level_1 THEN <<"light">>
    ELSE <<>>

\* the if / elif chain of _check_vega_threshold
VegaSeverity(vega, level_1, level_2, level_3) ==
    LET vega_value == Abs(vega) IN
    IF vega_value >= level_3 THEN <<"heavy">>
    ELSE IF vega_value >= level_2 THEN <<"medium">>
    ELSE IF vega_value >= level_1 THEN <<"light">>
    ELSE <<>>

\* _should_alert against a cooldown table
_should_alertWrong(lat, alert_key, now_time) == TRUE
_should_alert(lat, alert_key, now_time) ==
    LET last_alert_time == get_last_alert_time(lat, alert_key) IN
    IF last_alert_time = <<>> THEN TRUE
    ELSE now_time - last_alert_time[1] >= cooldown_seconds

\* The store and the logs as they are threaded through one step
World == [state |-> state, lat |-> last_alert_times, alerts |-> alerts, writes |-> writes,
          attempts |-> 0, trend |-> trend]

\* the dictionary a method of the store leaves, in the world
Stored(w, whole) == [w EXCEPT !.state = SeriesOf(whole), !.lat = TableOf(whole)]

\* StateStore.set called by the monitor at clock reading now
MonitorSet(w, key, value, timestamp, now) ==
    [Stored(w, StoreSet(Whole(w.state, w.lat), key, value, timestamp, now))
        EXCEPT !.writes = Append(w.writes,
                                 [key |-> key, value |-> value, timestamp |-> timestamp])]

\* what a successful delivery records
RecordFiringWrong(w, alert_key, success, now) ==
    Stored(w, StoreSetLastAlert(Whole(w.state, w.lat), alert_key, current_time, now))
RecordFiring(w, alert_key, success, now) ==
    IF success
    THEN Stored(w, StoreSetLastAlert(Whole(w.state, w.lat), alert_key, current_time, now))
    ELSE w

\* send_feishu_alert: the channel fails the calls of this step whose number is in fail
send_feishu_alert(w, fail) == (w.attempts + 1) \notin fail

\* "if self.enable_alert:" under the cooldown check: the candidate is delivered
DeliversWrong(eligible, enabled) == eligible
Delivers(eligible, enabled) == eligible /\ enabled

\* One candidate: cooldown check, delivery when alerts are enabled, and the
\* recording of the firing time on success.
FireAlert(w, alert_key, fail, now) ==
    LET eligible == _should_alert(w.lat, alert_key, current_time)
        attempted == Delivers(eligible, enable_alert)
        success == attempted /\ send_feishu_alert(w, fail)
        entry == [key |-> alert_key, time |-> current_time,
                  last |-> get_last_alert_time(w.lat, alert_key),
                  eligible |-> eligible, attempted |-> attempted, success |-> success]
        logged == [w EXCEPT !.alerts = Append(w.alerts, entry),
                            !.attempts = IF attempted THEN w.attempts + 1 ELSE w.attempts]
    IN IF attempted THEN RecordFiring(logged, alert_key, success, now) ELSE logged

_check_gamma_levels(w, position, fail, now) ==
    LET sev == GammaSeverity(position.gamma, gamma_level_1_light,
                             gamma_level_2_medium, gamma_level_3_heavy)
    IN IF sev = <<>> THEN w
       ELSE FireAlert(w, position.instrument_name \o "_gamma_level_" \o sev[1], fail, now)

_check_vega_threshold(w, position, fail, now) ==
    LET sev == VegaSeverity(position.vega, vega_level_1_light,
                            vega_level_2_medium, vega_level_3_heavy)
    IN IF sev = <<>> THEN w
       ELSE FireAlert(w, position.instrument_name \o "_vega_level_" \o sev[1], fail, now)

PositionValue(position) == [gamma |-> position.gamma, vega |-> position.vega]

\* the body of the loop of _check_positions for one position
CheckOnePositionWrong(w, position, fail, now) ==
    LET history_5m == get_history(w.state, position.instrument_name, 5, now) IN
    IF history_5m = <<>>
    THEN LET w1 == MonitorSet(w, position.instrument_name, PositionValue(position),
                              current_time, now)
             w2 == _check_gamma_levels(w1, position, fail, now)
         IN _check_vega_threshold(w2, position, fail, now)
    ELSE LET w1 == _check_gamma_levels(w, position, fail, now)
         IN _check_vega_threshold(w1, position, fail, now)
CheckOnePosition(w, position, fail, now) ==
    LET history_5m == get_history(w.state, position.instrument_name, 5, now) IN
    IF history_5m = <<>>
    THEN LET w1 == MonitorSet(w, position.instrument_name, PositionValue(position),
                              current_time, now)
             w2 == _check_gamma_levels(w1, position, fail, now)
         IN _check_vega_threshold(w2, position, fail, now)
    ELSE LET w1 == _check_gamma_levels(w, position, fail, now)
             w2 == _check_vega_threshold(w1, position, fail, now)
         IN MonitorSet(w2, position.instrument_name, PositionValue(position),
                       current_time, now)

\* _check_positions: the loop over the positions, in order
RECURSIVE _check_positions(_, _, _, _)
_check_positions(w, positions, fail, now) ==
    IF positions = <<>> THEN w
    ELSE _check_positions(CheckOnePosition(w, Head(positions), fail, now),
                          Tail(positions), fail, now)

\* sorted(history_5m, key=lambda x: abs(x["timestamp"] - target_time))[0]
RECURSIVE ClosestTo(_, _)
ClosestTo(s, target_time) ==
    IF Len(s) = 1 THEN s[1]
    ELSE LET rest == ClosestTo(Tail(s), target_time) IN
         IF Abs(Head(s).timestamp - target_time) <= Abs(rest.timestamp - target_time)
         THEN Head(s) ELSE rest

\* The index values are Python floats (binary64).  A value of t tenths is
\* held as the double nearest to t / 10, which is (t + e * 2^-57) / 10 for
\* the whole number e computed below; the comparisons of _check_dvol are made
\* on these doubles, with the rounding of every operation.

\* the exponent k >= from of the spacing 2^k * 2^-57 of the doubles around
\* t / 10, t >= 1: 2^k * 2^-5 <= t / 10 < 2 * 2^k * 2^-5
RECURSIVE Exponent(_, _)
Exponent(t, from) == IF 32 * t < 20 * (2 ^ from) THEN from ELSE Exponent(t, from + 1)

\* the spacing of the doubles around |t| / 10, in units of 2^-57
Ulp(t) == IF t = 0 THEN 0 ELSE 2 ^ Exponent(Abs(t), 1)

\* 2^s mod 10 for s >= 1
PowerOfTwoMod10(s) == <<6, 2, 4, 8>>[(s % 4) + 1]

\* round to nearest of t / 10: |t| / 10 = (m + r / 10) * ulp for a whole
\* number m and r = (|t| * 2^s) mod 10, ulp being 2^-s; r is even, so never a
\* tie; the double is r / 10 of an ulp below |t| / 10 when r < 5 and
\* (10 - r) / 10 of an ulp above it otherwise
RoundingError(t) ==
    IF t = 0 THEN 0
    ELSE LET k == Exponent(Abs(t), 1)
             r == ((Abs(t) % 10) * PowerOfTwoMod10(57 - k)) % 10
             e == IF r < 5 THEN (0 - r) * (2 ^ k) ELSE (10 - r) * (2 ^ k)
         IN IF t < 0 THEN 0 - e ELSE e

\* abs(x - y) of the doubles of two readings that differ, before it is
\* rounded, is (Abs(current - previous) + AbsDifferenceError * 2^-57) / 10
AbsDifferenceError(current_dvol, previous_dvol) ==
    IF current_dvol > previous_dvol
    THEN RoundingError(current_dvol) - RoundingError(previous_dvol)
    ELSE RoundingError(previous_dvol) - RoundingError(current_dvol)

\* abs(x - y), rounded, compares > h / 10, for a threshold h / 10 that is a
\* double with an even significand (5.0 and 0.5 are): the difference is more
\* than half an ulp above it, a tie being rounded to the threshold itself
RoundsAbove(current_dvol, previous_dvol, h) ==
    \/ Abs(current_dvol - previous_dvol) > h
    \/ /\ Abs(current_dvol - previous_dvol) = h
       /\ AbsDifferenceError(current_dvol, previous_dvol) > 5 * Ulp(h)

\* abs(abs_change) > abs_change_threshold
AbsChangeExceeds(current_dvol, previous_dvol) ==
    RoundsAbove(current_dvol, previous_dvol, abs_change_threshold)

\* the first target within the tolerance: <<>> is None
WithinToleranceWrong(current_dvol, target_value) ==
    Abs(current_dvol - target_value) < specific_value_tolerance
WithinTolerance(current_dvol, target_value) ==
    ~RoundsAbove(current_dvol, target_value, specific_value_tolerance)
RECURSIVE MatchedSpecificValue(_, _)
MatchedSpecificValue(targets, current_dvol) ==
    IF targets = <<>> THEN <<>>
    ELSE IF WithinTolerance(current_dvol, Head(targets))
         THEN <<Head(targets)>>
         ELSE MatchedSpecificValue(Tail(targets), current_dvol)

SpecificKey(target_value) ==
    IF target_value = 700 THEN "dvol_specific_70.0" ELSE "dvol_specific_other"

\* pct_change as the fraction num / den: 0 when previous is 0
pct_change(current_dvol, previous_dvol) ==
    IF previous_dvol = 0 THEN [num |-> 0, den |-> 1]
    ELSE [num |-> current_dvol - previous_dvol, den |-> previous_dvol]

\* abs(pct_change) > pct_threshold, pct_change being 0.0 when previous is 0.
\* The quotient of the two readings is off 5 % by 1 / (20 * previous) at
\* least unless it is 5 % exactly, far more than the roundings move it, so
\* the readings decide.  At 5 % exactly the roundings decide: the difference
\* n of the two doubles is a double (they are within 5 % of each other), the
\* threshold 0.05 is held as 0.05 + 0.4 * 2^-57, a double with an even
\* significand and an ulp of 2^-57, and the quotient n / d rounds above it
\* when n > d * (0.05 + 0.9 * 2^-57); with n = (p / 20 + a * 2^-57) / 10 and
\* d = (p + e * 2^-57) / 10 that is 20 * a - e - 18 * p > 18 * e * 2^-57.
PctExceedsWrong(current_dvol, previous_dvol) ==
    IF previous_dvol = 0 THEN FALSE
    ELSE Abs(current_dvol - previous_dvol) * 100 >= pct_threshold_percent * Abs(previous_dvol)
PctExceeds(current_dvol, previous_dvol) ==
    IF previous_dvol = 0 THEN FALSE
    ELSE LET readings == Abs(current_dvol - previous_dvol) * 100
                            - pct_threshold_percent * Abs(previous_dvol)
             roundings == 20 * AbsDifferenceError(current_dvol, previous_dvol)
                             - RoundingError(Abs(previous_dvol)) - 18 * Abs(previous_dvol)
         IN IF readings # 0 THEN readings > 0
            ELSE roundings > 0 \/ (roundings = 0 /\ RoundingError(Abs(previous_dvol)) < 0)

_check_dvol(w, current_dvol, fail, now) ==
    LET history_5m == get_history(w.state, "dvol", 5, now) IN
    IF history_5m = <<>>
    THEN MonitorSet(w, "dvol", current_dvol, current_time, now)
    ELSE
      LET target_time == current_time - (5 * 60)
          previous_dvol == ClosestTo(history_5m, target_time).value
          abs_change == current_dvol - previous_dvol
          should_alert_abs_value == current_dvol >= abs_value_threshold
          should_alert_change == \/ PctExceeds(current_dvol, previous_dvol)
                                 \/ AbsChangeExceeds(current_dvol, previous_dvol)
          matched_specific_value == MatchedSpecificValue(specific_values, current_dvol)
          w0 == [w EXCEPT !.trend = <<[current |-> current_dvol, previous |-> previous_dvol,
                                       pct_change |-> pct_change(current_dvol, previous_dvol),
                                       abs_change |-> abs_change]>>]
          w1 == IF matched_specific_value # <<>>
                THEN FireAlert(w0, SpecificKey(matched_specific_value[1]), fail, now)
                ELSE w0
          w2 == IF should_alert_abs_value
                THEN FireAlert(w1, "dvol_abs_value", fail, now)
                ELSE w1
          w3 == IF should_alert_change
                THEN FireAlert(w2, "dvol_change", fail, now)
                ELSE w2
      IN MonitorSet(w3, "dvol", current_dvol, current_time, now)

\* "if dvol_data: self._check_dvol(dvol_data, current_time)"
DvolStepWrong(w, data, fail, now) ==
    IF data = <<>> THEN MonitorSet(w, "dvol", 0, current_time, now)
    ELSE _check_dvol(w, data[1], fail, now)
DvolStep(w, data, fail, now) ==
    IF data = <<>> THEN w
    ELSE _check_dvol(w, data[1], fail, now)

\* DeribitClient: the constants and tests of _make_request, whose retry
\* schedule decides how long the queries of a cycle take
retry_times == 3
auth_retry_times == 1
expiry_margin == 60

\* method_name.startswith("private/")
IsPrivate(method) ==
    Len(method) >= Len("private/") /\ SubSeq(method, 1, Len("private/")) = "private/"

\* What one requests.post can come to:
\*   timeout, ssl, request_exception   the exceptions of requests
\*   http_error                        a status other than 200
\*   invalid_json                      response.json() cannot decode the body
\*   not_envelope                      the body decodes to JSON that is not an object
\*   error_stale                       error code 13009/13000 with "unauthorized"
\*   error_other                       any other JSON-RPC error
\*   result                            a result
Outcomes == {"timeout", "ssl", "request_exception", "http_error", "invalid_json",
             "not_envelope", "error_stale", "error_other", "result"}
\* public/auth may besides be answered with
\*   result_not_object                 a result that is truthy but not an object
AuthOutcomes == {"result", "timeout", "error_other", "error_stale", "result_not_object"}
ExpiresInChoices == {900}
Methods == {"private/get_positions", "public/get_volatility_index_data"}
CallDelays == {0, 830, 840}

\* "if attempt < retry_times - 1"
AttemptsRemainWrong(k, retries) == k < retries
AttemptsRemain(k, retries) == k < retries - 1

\* the wait before the next attempt
WaitTimeWrong(outcome, k) == 2 ^ k
WaitTime(outcome, k) == IF outcome = "ssl" THEN 3 + 2 ^ k ELSE 2 ^ k

\* "if not self.token or time.time() >= self.token_expires_at"
NeedsAuthWrong(tok, expires_at, now) == tok = <<>> \/ now > expires_at
NeedsAuth(tok, expires_at, now) == tok = <<>> \/ now >= expires_at

\* "if not self.authenticate(): return None"
ProceedsAfterAuthWrong(ok) == TRUE
ProceedsAfterAuth(ok) == ok

\* headers["Authorization"] = f"Bearer {self.token}" after a re-authentication
HeaderAfterReauth(old, new) == new

\* the stale-token branch: 'if method_name.startswith("private/")'
ReauthenticatesWrong(outcome, method) == outcome = "error_stale"
Reauthenticates(outcome, method) == outcome = "error_stale" /\ IsPrivate(method)

\* the outcomes after which the loop sleeps and transmits again
RetriedWrong(outcome) ==
    outcome \in {"timeout", "ssl", "request_exception", "http_error", "not_envelope",
                 "error_other"}
Retried(outcome) ==
    outcome \in {"timeout", "ssl", "request_exception", "http_error", "not_envelope"}

\* currencies = ["BTC", "USDC", "ETH", "SOL"]
currencies == <<"BTC", "USDC", "ETH", "SOL">>

\* the seconds a list of time.sleep waits takes
RECURSIVE SumOf(_)
SumOf(sleeps_made) ==
    IF sleeps_made = <<>> THEN 0 ELSE Head(sleeps_made) + SumOf(Tail(sleeps_made))

\* the time.sleep waits one _make_request(retry_times=3) can make from
\* attempt k on: an attempt either ends the request (a return, or the last
\* attempt), or continues without a wait (the stale-token branch), or waits
\* WaitTime(outcome, k) after an outcome that is retried
RECURSIVE RequestSleeps(_)
RequestSleeps(k) ==
    IF ~AttemptsRemain(k, retry_times) THEN {<<>>}
    ELSE {<<>>} \cup RequestSleeps(k + 1)
         \cup {<<WaitTime(outcome, k)>> \o rest :
                  outcome \in {o \in Outcomes : Retried(o)}, rest \in RequestSleeps(k + 1)}

\* what n requests made one after the other can wait when at most budget of
\* them wait at all: the waits of each request that waited, in order
RECURSIVE StageSleeps(_, _)
StageSleeps(n, budget) ==
    IF n = 0 \/ budget = 0 THEN {<<>>}
    ELSE {<<>>} \cup
         {<<first>> \o rest : first \in RequestSleeps(0) \ {<<>>},
                              rest \in StageSleeps(n - 1, budget - 1)}

\* the seconds the requests of a stage have waited in all
RECURSIVE TotalSleep(_)
TotalSleep(waits) ==
    IF waits = <<>> THEN 0 ELSE SumOf(Head(waits)) + TotalSleep(Tail(waits))

\* the requests of the positions stage: private/get_positions for every
\* currency and public/get_order_book for every position kept
PositionRequests(fetched) == Len(currencies) + Len(fetched)
\* get_btc_dvol makes one request
DvolRequests == 1

\* What the exchange and the clock can do in a cycle
Position(name, gamma, vega) == [instrument_name |-> name, gamma |-> gamma, vega |-> vega]
\* all_positions after the four currency queries: nothing, one position, two
\* instruments, and an instrument that more than one query returned
PositionFetches ==
    { <<>>,
      <<Position("A", 10, 0)>>,
      <<Position("B", 110, 0), Position("A", 70, 30)>>,
      <<Position("A", 5, 0), Position("A", 10, 0), Position("A", 10, 0)>> }
\* the most deliveries the step in progress can attempt: the Gamma and the
\* Vega alert of every position, or the three alerts of the index
MaxAttempts == IF pc = "positions" THEN 2 * Len(all_positions) ELSE 3
DvolChoices == {550, 700}
PollSteps == {60, 300}

\* the monitor is constructed on an empty store
IdleStore ==
    /\ state = << >>
    /\ last_alert_times = << >>
    /\ lastSet = NoSet
    /\ prevSet = NoSet
    /\ lastOp = "none"
    /\ nsets = 0

\* the monitor as constructed, with one of the configured cooldowns
\* a section of config.yaml as yaml.safe_load reads it: a mapping, or None
\* when the key is written without a value
SectionChoices == {"mapping", "null"}

InitMonitor(cooldowns, sections) ==
    /\ clock = StartTime
    /\ IdleStore
    /\ pc = "idle"
    /\ current_time = 0
    /\ all_positions = <<>>
    /\ dvol_data = <<>>
    /\ cycles = 0
    /\ cycle_result = "none"
    /\ enable_alert \in BOOLEAN
    /\ cooldown_seconds \in cooldowns
    /\ specific_values \in SpecificValueChoices
    /\ option_thresholds \in sections
    /\ dvol_thresholds \in sections
    /\ alerts = <<>>
    /\ failures = 0
    /\ slept = 0
    /\ writes = <<>>
    /\ trend = <<>>
    /\ IdleLevels
    /\ IdleClient
    /\ IdleLookup
    /\ IdlePersist
    /\ IdlePositions

Init == InitMonitor({300}, {"mapping"})

\* the sets of delivery numbers the channel may fail in one step
FailChoices ==
    {fail \in SUBSET (1..MaxAttempts) : failures + Cardinality(fail) <= MaxFailures}

\* a step's result becomes the state; every failure chosen was a delivery made
Install(w, fail) ==
    /\ fail \subseteq 1..w.attempts
    /\ failures' = failures + Cardinality(fail)
    /\ state' = w.state
    /\ last_alert_times' = w.lat
    /\ alerts' = w.alerts
    /\ writes' = w.writes
    /\ trend' = w.trend

\* `if all_positions:` the positions are checked when there are any, and the
\* index is read next in either case
AfterFetchWrong(fetched) == IF fetched # <<>> THEN "positions" ELSE "idle"
AfterFetch(fetched) == IF fetched # <<>> THEN "positions" ELSE "dvol"

\* self.option_thresholds.get("gamma", {}) in _check_gamma_levels and
\* self.dvol_thresholds.get("dvol_value", {}) in _check_dvol raise
\* AttributeError when the section is None
GammaLevelsRaise == option_thresholds = "null"
DvolThresholdsRaise == dvol_thresholds = "null"

\* _check_dvol reaches the thresholds when the index has history of the last
\* five minutes
DvolCheckRaises ==
    /\ dvol_data # <<>>
    /\ DvolThresholdsRaise
    /\ get_history(state, "dvol", 5, clock) # <<>>

\* Monitor.run up to the positions fetch: the poll interval has passed, the
\* cycle time is read, dvol_data is not yet bound, and the queries return
\* fetched in all after their requests have slept waits between their attempts
RunStart(d, fetched, waits) ==
    /\ pc = "idle"
    /\ cycles < MaxCycles
    /\ current_time' = clock + d
    /\ clock' = current_time' + TotalSleep(waits)
    /\ slept' = slept + Len(waits)
    /\ all_positions' = fetched
    /\ pc' = AfterFetch(fetched)
    /\ writes' = <<>>
    /\ trend' = <<>>
    /\ cycle_result' = "running"
    /\ dvol_data' = <<>>
    /\ UNCHANGED <<state, last_alert_times, lastSet, prevSet, lastOp, nsets,
                   cycles, configVars, alerts, failures>>

\* _check_positions(all_positions, current_time)
CheckPositions(fail) ==
    /\ pc = "positions"
    /\ ~GammaLevelsRaise
    /\ \E w \in {_check_positions(World, all_positions, fail, clock)} : Install(w, fail)
    /\ all_positions' = <<>>
    /\ pc' = "dvol"
    /\ UNCHANGED <<clock, lastSet, prevSet, lastOp, nsets, current_time, dvol_data,
                   cycles, cycle_result, configVars,
                   slept>>

\* get_btc_dvol returned data (<<>> for None) after its request has slept
\* waits between its attempts
GetDvol(data, waits) ==
    /\ pc = "dvol"
    /\ clock' = clock + TotalSleep(waits)
    /\ slept' = slept + Len(waits)
    /\ dvol_data' = data
    /\ pc' = "check_dvol"
    /\ UNCHANGED <<storeVars, current_time, all_positions, cycles, cycle_result,
                   configVars, alerts, failures,
                   writes, trend>>

\* "if dvol_data: self._check_dvol(dvol_data, current_time)" and the cycle ends
CheckDvol(fail) ==
    /\ pc = "check_dvol"
    /\ ~DvolCheckRaises
    /\ \E w \in {DvolStep(World, dvol_data, fail, clock)} : Install(w, fail)
    /\ pc' = "idle"
    /\ cycles' = cycles + 1
    /\ cycle_result' = "completed"
    /\ UNCHANGED <<clock, lastSet, prevSet, lastOp, nsets, current_time,
                   all_positions, dvol_data, configVars, slept>>

\* _check_positions raised at the first position, in _check_gamma_levels:
\* a position without history of the last five minutes has been written
\* before the levels are read, one with history has not; run() catches and
\* logs, and the cycle ends before the index is read
CheckPositionsRaises ==
    /\ pc = "positions"
    /\ GammaLevelsRaise
    /\ LET position == Head(all_positions)
           w == IF get_history(state, position.instrument_name, 5, clock) = <<>>
                THEN MonitorSet(World, position.instrument_name, PositionValue(position),
                                current_time, clock)
                ELSE World
       IN Install(w, {})
    /\ all_positions' = <<>>
    /\ pc' = "idle"
    /\ cycles' = cycles + 1
    /\ cycle_result' = "caught"
    /\ UNCHANGED <<clock, lastSet, prevSet, lastOp, nsets, current_time, dvol_data,
                   configVars, slept>>

\* _check_dvol raised reading the thresholds, before any alert and before
\* the observation is written: run() catches and logs
CheckDvolRaises ==
    /\ pc = "check_dvol"
    /\ DvolCheckRaises
    /\ pc' = "idle"
    /\ cycles' = cycles + 1
    /\ cycle_result' = "caught"
    /\ UNCHANGED <<clock, storeVars, current_time, all_positions, dvol_data, configVars,
                   alerts, failures, slept, writes, trend>>

\* get_account_option_positions raised while converting a record, after the
\* requests made until then had slept waits: run() catches and logs, and
\* the cycle ends before the index is read
FetchRaises(d, waits) ==
    /\ pc = "idle"
    /\ cycles < MaxCycles
    /\ current_time' = clock + d
    /\ clock' = current_time' + TotalSleep(waits)
    /\ slept' = slept + Len(waits)
    /\ all_positions' = <<>>
    /\ pc' = "idle"
    /\ writes' = <<>>
    /\ trend' = <<>>
    /\ cycles' = cycles + 1
    /\ cycle_result' = "caught"
    /\ dvol_data' = <<>>
    /\ UNCHANGED <<storeVars, configVars, alerts, failures>>

\* get_btc_dvol raised while decoding the bucket its request returned after
\* sleeping waits: run() catches and logs
DvolRaisesWrong(waits) ==
    /\ pc = "dvol"
    /\ clock' = clock + TotalSleep(waits)
    /\ slept' = slept + Len(waits)
    /\ dvol_data' = <<>>
    /\ pc' = "stopped"
    /\ cycles' = cycles + 1
    /\ cycle_result' = "caught"
    /\ UNCHANGED <<storeVars, current_time, all_positions,
                   configVars, alerts, failures, writes, trend>>
DvolRaises(waits) ==
    /\ pc = "dvol"
    /\ clock' = clock + TotalSleep(waits)
    /\ slept' = slept + Len(waits)
    /\ dvol_data' = <<>>
    /\ pc' = "idle"
    /\ cycles' = cycles + 1
    /\ cycle_result' = "caught"
    /\ UNCHANGED <<storeVars, current_time, all_positions,
                   configVars, alerts, failures, writes, trend>>

Next ==
    \/ /\ \E d \in PollSteps, fetched \in PositionFetches :
             \E waits \in StageSleeps(PositionRequests(fetched), MaxSlept - slept) :
                RunStart(d, fetched, waits)
       /\ UNCHANGED <<levelVars, clientVars, lookupVars, persistVars, posVars>>
    \/ /\ \E fail \in FailChoices : CheckPositions(fail)
       /\ UNCHANGED <<levelVars, clientVars, lookupVars, persistVars, posVars>>
    \/ /\ \E data \in {<<>>} \cup {<<v>> : v \in DvolChoices},
             waits \in StageSleeps(DvolRequests, MaxSlept - slept) :
             GetDvol(data, waits)
       /\ UNCHANGED <<levelVars, clientVars, lookupVars, persistVars, posVars>>
    \/ /\ \E fail \in FailChoices : CheckDvol(fail)
       /\ UNCHANGED <<levelVars, clientVars, lookupVars, persistVars, posVars>>
    \/ /\ \E waits \in StageSleeps(DvolRequests, MaxSlept - slept) : DvolRaises(waits)
       /\ UNCHANGED <<levelVars, clientVars, lookupVars, persistVars, posVars>>
    \/ /\ \E d \in PollSteps, waits \in StageSleeps(Len(currencies), MaxSlept - slept) :
             FetchRaises(d, waits)
       /\ UNCHANGED <<levelVars, clientVars, lookupVars, persistVars, posVars>>

Spec == Init /\ [][Next]_vars

\* The poll loop of main.py for an account with one position or none, under
\* a configuration whose threshold sections may be null.  It keeps running:
\* time.sleep returns and run() is called again while the loop is not told
\* to stop.
LoopFetches == {<<>>, <<Position("A", 10, 0)>>}

InitLoop == InitMonitor({300}, SectionChoices)

NextLoop ==
    \/ /\ \E d \in PollSteps, fetched \in LoopFetches :
             \E waits \in StageSleeps(PositionRequests(fetched), MaxSlept - slept) :
                RunStart(d, fetched, waits)
       /\ UNCHANGED <<levelVars, clientVars, lookupVars, persistVars, posVars>>
    \/ /\ \E fail \in FailChoices : CheckPositions(fail)
       /\ UNCHANGED <<levelVars, clientVars, lookupVars, persistVars, posVars>>
    \/ /\ CheckPositionsRaises
       /\ UNCHANGED <<levelVars, clientVars, lookupVars, persistVars, posVars>>
    \/ /\ \E data \in {<<>>} \cup {<<v>> : v \in DvolChoices},
             waits \in StageSleeps(DvolRequests, MaxSlept - slept) :
             GetDvol(data, waits)
       /\ UNCHANGED <<levelVars, clientVars, lookupVars, persistVars, posVars>>
    \/ /\ \E fail \in FailChoices : CheckDvol(fail)
       /\ UNCHANGED <<levelVars, clientVars, lookupVars, persistVars, posVars>>
    \/ /\ CheckDvolRaises
       /\ UNCHANGED <<levelVars, clientVars, lookupVars, persistVars, posVars>>
    \/ /\ \E waits \in StageSleeps(DvolRequests, MaxSlept - slept) : DvolRaises(waits)
       /\ UNCHANGED <<levelVars, clientVars, lookupVars, persistVars, posVars>>
    \/ /\ \E d \in PollSteps, waits \in StageSleeps(Len(currencies), MaxSlept - slept) :
             FetchRaises(d, waits)
       /\ UNCHANGED <<levelVars, clientVars, lookupVars, persistVars, posVars>>

\* Every stage of the loop ends and hands over to the next: time.sleep
\* returns and run() makes its queries, which return or raise after their
\* bounded retries; _check_positions returns or raises; get_btc_dvol returns
\* or raises after its retries; _check_dvol returns or raises.  The loop is
\* at rest only when the cycles of the bound are done.
LoopMoves ==
    \/ /\ pc = "idle"
       /\ cycles < MaxCycles
       /\ \/ pc' \in {"positions", "dvol"} /\ cycles' = cycles
          \/ pc' = "idle" /\ cycles' = cycles + 1
    \/ /\ pc = "positions"
       /\ \/ pc' = "dvol" /\ cycles' = cycles
          \/ pc' = "idle" /\ cycles' = cycles + 1
    \/ /\ pc = "dvol"
       /\ \/ pc' = "check_dvol" /\ cycles' = cycles
          \/ pc' = "idle" /\ cycles' = cycles + 1
    \/ /\ pc = "check_dvol"
       /\ pc' = "idle"
       /\ cycles' = cycles + 1

SpecLoop == InitLoop /\ [][NextLoop]_vars /\ WF_<<pc, cycles>>(LoopMoves)

-----------------------------------------------------------------------------
(* The first cycle's four currency queries, each of which may fail *)

\* what _make_request returns to one query: None when the retries are
\* exhausted, an empty list, or a list with a position
QueryAnswers ==
    { [kind |-> "none", positions |-> <<>>],
      [kind |-> "list", positions |-> <<>>],
      [kind |-> "list", positions |-> <<Position("A", 10, 0)>>] }

\* get_account_option_positions: `if result is None: return []`
PositionsOf(answer) == IF answer.kind = "none" THEN <<>> ELSE answer.positions

\* all_positions.extend(positions) over the currencies
RECURSIVE Extend(_)
Extend(results) ==
    IF results = <<>> THEN <<>>
    ELSE PositionsOf(Head(results)) \o Extend(Tail(results))

\* Monitor.run up to the end of the currency loop
RunQueries(d, results, waits) ==
    /\ cycles = 0
    /\ RunStart(d, Extend(results), waits)
    /\ query_results' = results
    /\ UNCHANGED <<raw_result, order_books, option_positions, raw_dvol>>

\* a query raised after the queries before it had returned
QueriesRaise(d, returned, waits) ==
    /\ cycles = 0
    /\ FetchRaises(d, waits)
    /\ query_results' = returned
    /\ UNCHANGED <<raw_result, order_books, option_positions, raw_dvol>>

NextCycle ==
    \/ /\ \E d \in PollSteps, results \in [1..Len(currencies) -> QueryAnswers] :
             \E waits \in StageSleeps(PositionRequests(Extend(results)), MaxSlept - slept) :
                RunQueries(d, results, waits)
       /\ UNCHANGED <<levelVars, clientVars, lookupVars, persistVars>>
    \/ /\ \E fail \in FailChoices : CheckPositions(fail)
       /\ UNCHANGED <<levelVars, clientVars, lookupVars, persistVars, posVars>>
    \/ /\ \E data \in {<<>>} \cup {<<v>> : v \in DvolChoices},
             waits \in StageSleeps(DvolRequests, MaxSlept - slept) :
             GetDvol(data, waits)
       /\ UNCHANGED <<levelVars, clientVars, lookupVars, persistVars, posVars>>
    \/ /\ \E fail \in FailChoices : CheckDvol(fail)
       /\ UNCHANGED <<levelVars, clientVars, lookupVars, persistVars, posVars>>
    \/ /\ \E waits \in StageSleeps(DvolRequests, MaxSlept - slept) : DvolRaises(waits)
       /\ UNCHANGED <<levelVars, clientVars, lookupVars, persistVars, posVars>>
    \/ /\ \E d \in PollSteps,
             returned \in UNION {[1..n -> QueryAnswers] : n \in 0..(Len(currencies) - 1)} :
             \E waits \in StageSleeps(Len(returned) + 1 + Len(Extend(returned)),
                                      MaxSlept - slept) :
                QueriesRaise(d, returned, waits)
       /\ UNCHANGED <<levelVars, clientVars, lookupVars, persistVars>>

\* a cooldown of 0 is accepted by the configuration as well
CooldownChoices == {0, 300}
\* the default configuration but for the cooldown
InitCycle ==
    /\ InitMonitor(CooldownChoices, {"mapping"})
    /\ enable_alert
    /\ specific_values = <<>>

SpecCycle == InitCycle /\ [][NextCycle]_vars

-----------------------------------------------------------------------------
(* _check_dvol on the histories and cooldown tables earlier cycles may leave *)

\* the times of earlier cycles and the index values they wrote
DvolTimestamps == {StartTime - 360, StartTime - 300, StartTime - 240, StartTime - 60}
DvolValues == {0, 500, 1200}
\* values whose doubles are not exact, each with an answer exactly 5 % or
\* exactly 5.0 away: 22.0 and 23.1, 123.3 and 128.3
RoundedValues == {220, 1233}
DvolAnswers == {50, 231, 525, 550, 700, 705, 1250, 1255, 1283}
DvolAlertKeys == {"dvol_specific_70.0", "dvol_abs_value", "dvol_change"}

\* the "dvol" series after the writes of earlier cycles: sorted by timestamp
DvolHistories ==
    LET stamps == {SetToSortedSeq(T) :
                      T \in {U \in SUBSET DvolTimestamps : Cardinality(U) <= MaxHistory}}
    IN (UNION {{[i \in 1..Len(ts) |-> Entry(vals[i], ts[i])] :
                   vals \in [1..Len(ts) -> DvolValues]} : ts \in stamps})
       \cup {<<Entry(v, StartTime - 60)>> : v \in RoundedValues}

\* the store holding the series: its latest marker is the newest write
DvolStore(history) ==
    IF history = <<>> THEN << >>
    ELSE [key \in {"dvol"} |-> [latest |-> history[Len(history)], history |-> history]]

\* the cooldown tables: each index alert either never fired or fired 100 s ago
DvolTables == {[alert_key \in K |-> StartTime - 100] : K \in SUBSET DvolAlertKeys}

\* run() has read the cycle time and is about to read the index
InitDvol ==
    /\ clock = StartTime
    /\ \E history \in DvolHistories : state = DvolStore(history)
    /\ last_alert_times \in DvolTables
    /\ lastSet = NoSet
    /\ prevSet = NoSet
    /\ lastOp = "none"
    /\ nsets = 0
    /\ pc = "dvol"
    /\ current_time = StartTime
    /\ all_positions = <<>>
    /\ dvol_data = <<>>
    /\ cycles = 0
    /\ cycle_result = "running"
    /\ enable_alert = TRUE
    /\ cooldown_seconds = 300
    /\ specific_values \in SpecificValueChoices
    /\ option_thresholds = "mapping"
    /\ dvol_thresholds = "mapping"
    /\ alerts = <<>>
    /\ failures = 0
    /\ slept = 0
    /\ writes = <<>>
    /\ trend = <<>>
    /\ IdleLevels /\ IdleClient /\ IdleLookup /\ IdlePersist /\ IdlePositions

NextDvol ==
    \/ /\ \E data \in {<<v>> : v \in DvolAnswers},
             waits \in StageSleeps(DvolRequests, MaxSlept - slept) :
             GetDvol(data, waits)
       /\ UNCHANGED <<levelVars, clientVars, lookupVars, persistVars, posVars>>
    \/ /\ \E fail \in FailChoices : CheckDvol(fail)
       /\ UNCHANGED <<levelVars, clientVars, lookupVars, persistVars, posVars>>

SpecDvol == InitDvol /\ [][NextDvol]_vars

-----------------------------------------------------------------------------
(* DeribitClient.get_account_option_positions *)

\* Sizes and total Greeks are in units of 0.5e-8, so 1e-8 reads 2; a Greek
\* is the fraction num / den of that unit, and a size of 1.0 reads SizeScale.
epsilon == 2
SizeScale == 200000000
Exact(x) == [num |-> x, den |-> 1]

\* the records private/get_positions may return: the signed size, the Greeks
\* of the record and its "greeks" dictionary (<<>> when it has none)
RawSizes == {-4, -1, 0, 2, 6}
RawGreeks == {[gamma |-> -3, vega |-> 4, greeks |-> <<>>],
              [gamma |-> 0, vega |-> 0, greeks |-> <<[gamma |-> -5, vega |-> -6]>>]}
RawRecords == {[size |-> s, gamma |-> g.gamma, vega |-> g.vega, greeks |-> g.greeks] :
                  s \in RawSizes, g \in RawGreeks}

\* the answers of public/get_order_book: None, a book whose greeks hold the
\* Greeks of one contract, and a book whose greeks have no "gamma"
OrderBooks == {[status |-> "failed", gamma |-> 0, vega |-> 0],
               [status |-> "greeks", gamma |-> -7, vega |-> 8],
               [status |-> "no_gamma", gamma |-> 0, vega |-> 0]}

\* the Greek of the record, or of its "greeks" dictionary when it is below 1e-8
FromRecord(value, greeks, fallback) ==
    IF greeks # <<>> /\ Abs(value) < epsilon THEN fallback ELSE value

\* the test that discards a record: abs(size) < 1e-8
DiscardedWrong(size) == Abs(size) <= epsilon
Discarded(size) == Abs(size) < epsilon

OptionPosition(direction, size, gamma, vega) ==
    [direction |-> direction, size |-> size, gamma |-> gamma, vega |-> vega]

\* the body of the loop for a record that is kept
Normalise(pos, order_book) ==
    LET size == pos.size
        gamma == FromRecord(pos.gamma, pos.greeks,
                            IF pos.greeks # <<>> THEN pos.greeks[1].gamma ELSE 0)
        vega == FromRecord(pos.vega, pos.greeks,
                           IF pos.greeks # <<>> THEN pos.greeks[1].vega ELSE 0)
        gamma_total == IF Abs(size) > epsilon
                       THEN [num |-> Abs(order_book.gamma) * Abs(size), den |-> SizeScale]
                       ELSE Exact(Abs(order_book.gamma))
        vega_total == IF Abs(size) > epsilon
                      THEN [num |-> Abs(order_book.vega) * Abs(size), den |-> SizeScale]
                      ELSE Exact(Abs(order_book.vega))
    IN OptionPosition(IF size > 0 THEN "buy" ELSE "sell", Abs(size),
                      IF order_book.status = "greeks" THEN gamma_total ELSE Exact(Abs(gamma)),
                      IF order_book.status = "greeks" THEN vega_total ELSE Exact(Abs(vega)))

\* the loop over the records, each with the answer of its order book query
RECURSIVE NormaliseAll(_, _)
NormaliseAll(records, books) ==
    IF records = <<>> THEN <<>>
    ELSE IF Discarded(Head(records).size)
         THEN NormaliseAll(Tail(records), Tail(books))
         ELSE <<Normalise(Head(records), Head(books))>>
                 \o NormaliseAll(Tail(records), Tail(books))

\* the answers of private/get_positions: None, one object, a list
RawResults ==
    {[kind |-> "none", records |-> <<>>]}
    \cup {[kind |-> "object", records |-> <<r>>] : r \in RawRecords}
    \cup UNION {{[kind |-> "list", records |-> rs] : rs \in [1..n -> RawRecords]} :
                   n \in 0..MaxRecords}

\* the client is about to be asked for the positions; option_positions is
\* <<>> until the call has returned
InitPositions ==
    /\ clock = StartTime
    /\ raw_result \in RawResults
    /\ order_books \in [1..Len(raw_result.records) -> OrderBooks]
    /\ option_positions = <<>>
    /\ raw_dvol = <<>>
    /\ query_results = <<>>
    /\ InitStore /\ IdleMonitor /\ IdleLevels /\ IdleClient /\ IdleLookup /\ IdlePersist

\* get_account_option_positions returns
GetAccountOptionPositions ==
    /\ option_positions = <<>>
    /\ option_positions' =
          <<IF raw_result.kind = "none" THEN <<>>
            ELSE NormaliseAll(raw_result.records, order_books)>>
    /\ UNCHANGED <<raw_result, order_books, raw_dvol, query_results>>

NextPositions ==
    /\ GetAccountOptionPositions
    /\ UNCHANGED <<clock, storeVars, monVars, levelVars, clientVars, lookupVars, persistVars>>

SpecPositions == InitPositions /\ [][NextPositions]_vars

-----------------------------------------------------------------------------
(* Decoding of answers whose fields are missing, null or of another type *)

\* a JSON value under a key: absent, null, a number, a string that spells a
\* number, the empty string, or a string that spells no number
JMissing == [type |-> "missing", value |-> 0]
JNull == [type |-> "null", value |-> 0]
JEmpty == [type |-> "empty_string", value |-> 0]
JNum(v) == [type |-> "number", value |-> v]
JStr(v) == [type |-> "numeric_string", value |-> v]
JText == [type |-> "text", value |-> 0]

\* float(pos.get("size", 0)): the default stands in for an absent key only
FloatOfSize(j) ==
    CASE j.type = "missing" -> [raises |-> FALSE, value |-> 0]
      [] j.type \in {"number", "numeric_string"} -> [raises |-> FALSE, value |-> j.value]
      [] OTHER -> [raises |-> TRUE, value |-> 0]

\* float(pos.get("gamma", 0) or 0): null, 0 and the empty string are falsy
\* and give 0 as well
FloatOrZero(j) ==
    CASE j.type \in {"missing", "null", "empty_string"} -> [raises |-> FALSE, value |-> 0]
      [] j.type \in {"number", "numeric_string"} -> [raises |-> FALSE, value |-> j.value]
      [] OTHER -> [raises |-> TRUE, value |-> 0]

\* int(latest[0]) and float(latest[4]) of a bucket
NumberOf(j) ==
    IF j.type \in {"number", "numeric_string"} THEN [raises |-> FALSE, value |-> j.value]
    ELSE [raises |-> TRUE, value |-> 0]

\* f"{latest[1]:.2f}" in the logger.debug call: only a number can be formatted
FormatRaises(j) == j.type # "number"

\* one unit of the evaluator's Gamma scale, 1e-5, in the units of the query
GammaUnit == 2000

\* records as private/get_positions may return them; object is FALSE for an
\* element of the list that is not an object.  The Gamma -0.0001 reads
\* -10 * GammaUnit.
AnomalousSizes == {JMissing, JNull, JEmpty, JNum(-4), JStr(6), JText}
AnomalousGreeks == {JMissing, JNull, JEmpty, JNum(-10 * GammaUnit), JText}
AnomalousRecords ==
    {[object |-> TRUE, size |-> s, gamma |-> g] : s \in AnomalousSizes, g \in AnomalousGreeks}
    \cup {[object |-> FALSE, size |-> JMissing, gamma |-> JMissing]}

\* the conversions of one record raise: pos.get on a value that is not an
\* object, float of the size, or float of a Greek of a record that is kept
RecordRaises(pos) ==
    \/ ~pos.object
    \/ FloatOfSize(pos.size).raises
    \/ /\ ~Discarded(FloatOfSize(pos.size).value)
       /\ FloatOrZero(pos.gamma).raises

\* the record with its fields converted
Converted(pos) ==
    [size |-> FloatOfSize(pos.size).value, gamma |-> FloatOrZero(pos.gamma).value,
     vega |-> 0, greeks |-> <<>>]

\* the loop of get_account_option_positions stops at the first record that raises
PositionsRaise(records) == \E i \in 1..Len(records) : RecordRaises(records[i])

\* the requests made before the loop raised: the positions query, and the
\* order book query of every record kept before the one that raised
RECURSIVE RequestsUntilRaise(_)
RequestsUntilRaise(records) ==
    IF RecordRaises(Head(records)) THEN 1
    ELSE (IF Discarded(FloatOfSize(Head(records).size).value) THEN 0 ELSE 1)
         + RequestsUntilRaise(Tail(records))

\* the OptionPosition as the evaluator reads it: the instrument is "A", the
\* Gamma in units of 1e-5, the Vega in whole units
VegaUnit == SizeScale
MonitorPosition(p) ==
    Position("A", p.gamma.num \div (p.gamma.den * GammaUnit),
             p.vega.num \div (p.vega.den * VegaUnit))
MonitorPositions(positions) == [i \in 1..Len(positions) |-> MonitorPosition(positions[i])]

\* the last bucket of public/get_volatility_index_data: the query failed,
\* "data" is empty, the bucket is not a list, has fewer than 5 elements, or
\* is [timestamp, open, high, low, close]
Bucket(shape, timestamp, open, close) ==
    [shape |-> shape, timestamp |-> timestamp, open |-> open, close |-> close]
AnomalousBuckets ==
    {Bucket(shape, JNull, JNull, JNull) : shape \in {"none", "empty", "not_list", "short"}}
    \cup {Bucket("ohlc", t, o, c) :
             t \in {JNum(1), JNull},
             o \in {JNum(690), JNull},
             c \in {JNum(700), JNull, JStr(700), JText}}

\* get_btc_dvol raises on the bucket
BucketRaises(b) ==
    /\ b.shape = "ohlc"
    /\ \/ NumberOf(b.timestamp).raises
       \/ NumberOf(b.close).raises
       \/ FormatRaises(b.open)
       \/ FormatRaises(b.close)

\* what get_btc_dvol returns when it does not raise: <<>> is None
BucketValue(b) == IF b.shape = "ohlc" THEN <<NumberOf(b.close).value>> ELSE <<>>

\* the answers of the exchange in one cycle
InitDecode ==
    /\ clock = StartTime
    /\ \E n \in 0..MaxRecords : \E rs \in [1..n -> AnomalousRecords] :
          /\ raw_result = [kind |-> "list", records |-> rs]
          /\ order_books = [i \in 1..n |-> [status |-> "failed", gamma |-> 0, vega |-> 0]]
    /\ raw_dvol \in AnomalousBuckets
    /\ query_results = <<>>
    /\ option_positions = <<>>
    /\ IdleStore /\ IdleMonitor /\ IdleLevels /\ IdleClient /\ IdleLookup /\ IdlePersist

\* what the positions query of the first currency returns when no record raises
DecodedPositions ==
    NormaliseAll([i \in 1..Len(raw_result.records) |-> Converted(raw_result.records[i])],
                 order_books)

\* Monitor.run up to the end of the currency loop: the query of the first
\* currency is answered with raw_result and raises or returns, the queries
\* of the other currencies are answered with empty lists
FetchPositions(d, waits) ==
    /\ cycles = 0
    /\ IF PositionsRaise(raw_result.records)
       THEN /\ Len(waits) <= RequestsUntilRaise(raw_result.records)
            /\ FetchRaises(d, waits)
            /\ UNCHANGED option_positions
       ELSE /\ Len(waits) <= PositionRequests(DecodedPositions)
            /\ RunStart(d, MonitorPositions(DecodedPositions), waits)
            /\ option_positions' = <<DecodedPositions>>
    /\ UNCHANGED <<raw_result, order_books, raw_dvol, query_results>>

\* get_btc_dvol is answered with raw_dvol and raises or returns
FetchDvol(waits) ==
    IF BucketRaises(raw_dvol)
    THEN DvolRaises(waits)
    ELSE GetDvol(BucketValue(raw_dvol), waits)

NextDecode ==
    \/ /\ \E d \in PollSteps, waits \in StageSleeps(Len(currencies) + MaxRecords, MaxSlept - slept) :
             FetchPositions(d, waits)
       /\ UNCHANGED <<levelVars, clientVars, lookupVars, persistVars>>
    \/ /\ \E fail \in FailChoices : CheckPositions(fail)
       /\ UNCHANGED <<levelVars, clientVars, lookupVars, persistVars, posVars>>
    \/ /\ \E waits \in StageSleeps(DvolRequests, MaxSlept - slept) : FetchDvol(waits)
       /\ UNCHANGED <<levelVars, clientVars, lookupVars, persistVars, posVars>>
    \/ /\ \E fail \in FailChoices : CheckDvol(fail)
       /\ UNCHANGED <<levelVars, clientVars, lookupVars, persistVars, posVars>>

SpecDecode == InitDecode /\ [][NextDecode]_vars

-----------------------------------------------------------------------------
(* The level classification on its own inputs *)

AscendingTriples ==
    {t \in (1..MaxThreshold) \X (1..MaxThreshold) \X (1..MaxThreshold) :
        t[1] <= t[2] /\ t[2] <= t[3]}
ThresholdChoices == AscendingTriples \cup {<<10, 50, 100>>}
LevelValues == ((0 - MaxThreshold - 1)..(MaxThreshold + 1)) \cup {5, 10, 50, 70, 100, 110}

InitLevels ==
    /\ clock = StartTime
    /\ IdleStore
    /\ IdleMonitor
    /\ IdleClient
    /\ IdleLookup
    /\ IdlePersist
    /\ IdlePositions
    /\ level_metric = "none"
    /\ level_value \in LevelValues
    /\ thresholds \in ThresholdChoices
    /\ severity = <<>>

\* _check_gamma_levels classifies position.gamma
ClassifyGamma ==
    /\ level_metric = "none"
    /\ level_metric' = "gamma"
    /\ severity' = GammaSeverity(level_value, thresholds[1], thresholds[2], thresholds[3])
    /\ UNCHANGED <<level_value, thresholds>>

\* _check_vega_threshold classifies position.vega
ClassifyVega ==
    /\ level_metric = "none"
    /\ level_metric' = "vega"
    /\ severity' = VegaSeverity(level_value, thresholds[1], thresholds[2], thresholds[3])
    /\ UNCHANGED <<level_value, thresholds>>

NextLevels ==
    \/ ClassifyGamma /\ UNCHANGED <<clock, storeVars, monVars, clientVars, lookupVars, persistVars, posVars>>
    \/ ClassifyVega /\ UNCHANGED <<clock, storeVars, monVars, clientVars, lookupVars, persistVars, posVars>>

SpecLevels == InitLevels /\ [][NextLevels]_vars

-----------------------------------------------------------------------------
(* DeribitClient: _make_request and authenticate *)

Transmission(kind, method, id, auth_header, k, outcome, tok) ==
    [kind |-> kind, method |-> method, id |-> id, bearer |-> auth_header,
     attempt |-> k, outcome |-> outcome, token |-> tok]

\* The client after construction: __init__ has called authenticate once
InitClient ==
    /\ clock = StartTime
    /\ request_id = 1
    /\ \E ok \in BOOLEAN, expires_in \in ExpiresInChoices :
          /\ issued = IF ok THEN 1 ELSE 0
          /\ token = IF ok THEN <<1>> ELSE <<>>
          /\ token_expires_at = IF ok THEN StartTime + expires_in - expiry_margin ELSE 0
          /\ last_auth = IF ok THEN <<[time |-> StartTime, expires_in |-> expires_in]>>
                         ELSE <<>>
    /\ cpc = "idle"
    /\ method_name = ""
    /\ attempt = 0
    /\ auth_attempt = 0
    /\ bearer = <<>>
    /\ body_id = 0
    /\ valid_at_start = FALSE
    /\ sent = <<>>
    /\ sleeps = <<>>
    /\ result = "none"
    /\ ncalls = 0
    /\ IdleStore
    /\ IdleMonitor
    /\ IdleLevels
    /\ IdleLookup
    /\ IdlePersist
    /\ IdlePositions

\* _make_request(method) is entered d seconds after the last call returned
BeginCall(method, d) ==
    /\ cpc = "idle"
    /\ ncalls < MaxCalls
    /\ ncalls' = ncalls + 1
    /\ clock' = clock + d
    /\ method_name' = method
    /\ sent' = <<>>
    /\ sleeps' = <<>>
    /\ result' = "pending"
    /\ attempt' = 0
    /\ auth_attempt' = 0
    /\ valid_at_start' = ~NeedsAuth(token, token_expires_at, clock')
    /\ IF IsPrivate(method) /\ NeedsAuth(token, token_expires_at, clock')
       THEN /\ cpc' = "preauth"
            /\ UNCHANGED <<bearer, body_id, request_id>>
       ELSE /\ cpc' = "attempt"
            /\ bearer' = IF IsPrivate(method) THEN token ELSE <<>>
            /\ request_id' = request_id + 1
            /\ body_id' = request_id'
    /\ UNCHANGED <<token, token_expires_at, issued, last_auth>>

\* result.get("access_token") raises AttributeError on a result without get
AuthRaises(outcome) == outcome = "result_not_object"

\* request_body["id"] of public/auth: taken once, before the retry loop
AuthIdWrong == request_id
AuthId == IF auth_attempt = 0 THEN request_id + 1 ELSE request_id

Fail ==
    /\ cpc' = "idle"
    /\ result' = "failure"

\* an exception leaves _make_request
Raise ==
    /\ cpc' = "idle"
    /\ result' = "raised"

\* what authenticate leaves in the client
AuthEffect(outcome, expires_in) ==
    /\ issued' = IF outcome = "result" THEN issued + 1 ELSE issued
    /\ token' = IF outcome = "result" THEN <<issued'>> ELSE token
    /\ token_expires_at' = IF outcome = "result"
                           THEN clock + expires_in - expiry_margin
                           ELSE token_expires_at
    /\ last_auth' = IF outcome = "result"
                    THEN <<[time |-> clock, expires_in |-> expires_in]>>
                    ELSE last_auth

\* the authentication before the request is built
PreAuth(outcome, expires_in) ==
    /\ cpc = "preauth"
    /\ \E ids \in {AuthId} :
          /\ AuthEffect(outcome, expires_in)
          /\ sent' = Append(sent, Transmission("auth", "public/auth", ids, <<>>,
                                               auth_attempt, outcome,
                                               IF outcome = "result" THEN issued' ELSE 0))
          /\ IF Retried(outcome) /\ AttemptsRemain(auth_attempt, auth_retry_times)
             THEN /\ auth_attempt' = auth_attempt + 1
                  /\ sleeps' = Append(sleeps, WaitTime(outcome, auth_attempt))
                  /\ clock' = clock + WaitTime(outcome, auth_attempt)
                  /\ request_id' = ids
                  /\ UNCHANGED <<cpc, bearer, body_id, result>>
             ELSE IF AuthRaises(outcome)
             THEN /\ Raise
                  /\ request_id' = ids
                  /\ UNCHANGED <<clock, sleeps, auth_attempt, bearer, body_id>>
             ELSE IF ProceedsAfterAuth(outcome = "result")
             THEN /\ cpc' = "attempt"
                  /\ bearer' = token'
                  /\ request_id' = ids + 1
                  /\ body_id' = request_id'
                  /\ UNCHANGED <<clock, sleeps, auth_attempt, result>>
             ELSE /\ Fail
                  /\ request_id' = ids
                  /\ UNCHANGED <<clock, sleeps, auth_attempt, bearer, body_id>>
    /\ UNCHANGED <<method_name, attempt, valid_at_start, ncalls>>

\* one pass of the retry loop: requests.post and what follows its outcome,
\* up to a re-authentication
Attempt(outcome, json_error_is_request_exception) ==
    /\ cpc = "attempt"
    /\ sent' = Append(sent, Transmission("call", method_name, body_id, bearer, attempt,
                                         outcome, 0))
    /\ LET retried == \/ Retried(outcome)
                      \/ outcome = "invalid_json" /\ json_error_is_request_exception
       IN
       IF outcome = "result"
       THEN /\ cpc' = "idle"
            /\ result' = "value"
            /\ UNCHANGED <<clock, attempt, sleeps>>
       ELSE IF Reauthenticates(outcome, method_name)
       THEN /\ cpc' = "reauth"
            /\ UNCHANGED <<clock, attempt, sleeps, result>>
       ELSE IF retried /\ AttemptsRemain(attempt, retry_times)
       THEN /\ cpc' = "attempt"
            /\ sleeps' = Append(sleeps, WaitTime(outcome, attempt))
            /\ clock' = clock + WaitTime(outcome, attempt)
            /\ attempt' = attempt + 1
            /\ UNCHANGED result
       ELSE /\ Fail
            /\ UNCHANGED <<clock, attempt, sleeps>>
    /\ UNCHANGED <<token, token_expires_at, request_id, issued, method_name, bearer,
                   body_id, valid_at_start, ncalls, auth_attempt, last_auth>>

\* the authentication after a stale-token error, and the "continue"
ReAuth(outcome, expires_in) ==
    /\ cpc = "reauth"
    /\ request_id' = AuthId
    /\ AuthEffect(outcome, expires_in)
    /\ sent' = Append(sent, Transmission("auth", "public/auth", request_id', <<>>,
                                         auth_attempt, outcome,
                                         IF outcome = "result" THEN issued' ELSE 0))
    /\ IF Retried(outcome) /\ AttemptsRemain(auth_attempt, auth_retry_times)
       THEN /\ auth_attempt' = auth_attempt + 1
            /\ sleeps' = Append(sleeps, WaitTime(outcome, auth_attempt))
            /\ clock' = clock + WaitTime(outcome, auth_attempt)
            /\ UNCHANGED <<cpc, bearer, attempt, result>>
       ELSE IF AuthRaises(outcome)
       THEN \* caught by "except Exception" of the loop
            IF AttemptsRemain(attempt, retry_times)
            THEN /\ cpc' = "attempt"
                 /\ sleeps' = Append(sleeps, WaitTime("exception", attempt))
                 /\ clock' = clock + WaitTime("exception", attempt)
                 /\ attempt' = attempt + 1
                 /\ UNCHANGED <<auth_attempt, bearer, result>>
            ELSE /\ Fail
                 /\ UNCHANGED <<clock, sleeps, auth_attempt, bearer, attempt>>
       ELSE IF ProceedsAfterAuth(outcome = "result")
       THEN /\ bearer' = HeaderAfterReauth(bearer, token')
            /\ IF AttemptsRemain(attempt, retry_times)
               THEN /\ cpc' = "attempt"
                    /\ attempt' = attempt + 1
                    /\ UNCHANGED result
               ELSE /\ Fail
                    /\ UNCHANGED attempt
            /\ UNCHANGED <<clock, sleeps, auth_attempt>>
       ELSE /\ Fail
            /\ UNCHANGED <<clock, sleeps, auth_attempt, bearer, attempt>>
    /\ UNCHANGED <<method_name, body_id, valid_at_start, ncalls>>

NextClient ==
    \/ /\ \E method \in Methods, d \in CallDelays : BeginCall(method, d)
       /\ UNCHANGED <<storeVars, monVars, levelVars, lookupVars, persistVars, posVars>>
    \/ /\ \E outcome \in AuthOutcomes, expires_in \in ExpiresInChoices : PreAuth(outcome, expires_in)
       /\ UNCHANGED <<storeVars, monVars, levelVars, lookupVars, persistVars, posVars>>
    \/ /\ \E outcome \in Outcomes, v \in BOOLEAN : Attempt(outcome, v)
       /\ UNCHANGED <<storeVars, monVars, levelVars, lookupVars, persistVars, posVars>>
    \/ /\ \E outcome \in AuthOutcomes, expires_in \in ExpiresInChoices : ReAuth(outcome, expires_in)
       /\ UNCHANGED <<storeVars, monVars, levelVars, lookupVars, persistVars, posVars>>

SpecClient == InitClient /\ [][NextClient]_vars

\* a call that has begun runs on: requests.post has timeouts, sleeps are finite
SpecClientFair == SpecClient /\ WF_vars(NextClient)

\* The method names the query functions of the client pass to _make_request:
\* get_account_option_positions (positions, then the order book of each),
\* get_open_orders, get_btc_dvol and get_dvol_history
QueryMethodsWrong ==
    {"private/get_positions", "public/get_order_book",
     "private/get_open_orders_by_currency", "public/get_volatility_index_data",
     "private/buy"}
QueryMethods ==
    {"private/get_positions", "public/get_order_book",
     "private/get_open_orders_by_currency", "public/get_volatility_index_data"}
\* answers that end a call, retry it and make it authenticate again
QueryOutcomes == {"result", "timeout", "error_stale"}
QueryAuthOutcomes == {"result", "timeout"}

NextQueries ==
    \/ /\ \E method \in QueryMethods, d \in CallDelays : BeginCall(method, d)
       /\ UNCHANGED <<storeVars, monVars, levelVars, lookupVars, persistVars, posVars>>
    \/ /\ \E outcome \in QueryAuthOutcomes, expires_in \in ExpiresInChoices :
             PreAuth(outcome, expires_in)
       /\ UNCHANGED <<storeVars, monVars, levelVars, lookupVars, persistVars, posVars>>
    \/ /\ \E outcome \in QueryOutcomes, v \in BOOLEAN : Attempt(outcome, v)
       /\ UNCHANGED <<storeVars, monVars, levelVars, lookupVars, persistVars, posVars>>
    \/ /\ \E outcome \in QueryAuthOutcomes, expires_in \in ExpiresInChoices :
             ReAuth(outcome, expires_in)
       /\ UNCHANGED <<storeVars, monVars, levelVars, lookupVars, persistVars, posVars>>

SpecQueries == InitClient /\ [][NextQueries]_vars

-----------------------------------------------------------------------------
(* StateStore.get_value_at_time *)

\* min(history, key=...) keeps the entry it holds unless the next one is
\* strictly closer
CloserWrong(a, b, target_time) ==
    Abs(a.timestamp - target_time) <= Abs(b.timestamp - target_time)
Closer(a, b, target_time) ==
    Abs(a.timestamp - target_time) < Abs(b.timestamp - target_time)

RECURSIVE MinFrom(_, _, _)
MinFrom(best, s, target_time) ==
    IF s = <<>> THEN best
    ELSE MinFrom(IF Closer(Head(s), best, target_time) THEN Head(s) ELSE best,
                 Tail(s), target_time)

\* get_value_at_time(key, target_time) evaluated at time now; <<>> is None
get_value_at_time(st, key, target_time, now) ==
    LET history == get_history(st, key, max_history_minutes, now) IN
    IF history = <<>> THEN <<>>
    ELSE <<MinFrom(history[1], Tail(history), target_time).value>>

\* The store as the save at StartTime left it: one series, its entries in
\* timestamp order and more than a second apart.  The series of an ordinary
\* key holds nothing older than the retention cutoff of that save; the
\* series of a key that starts with an underscore holds whatever was set.
LookupTimestamps == {StartTime - 3700, StartTime - 3600, StartTime - 3510,
                     StartTime - 20, StartTime - 10, StartTime}
LookupTargets == {StartTime - 3555, StartTime - 300, StartTime - 15, StartTime - 10}
LookupDelays == {0, 100}

LookupHistories(key) ==
    LET allowed == IF StartsWithUnderscore(key) THEN LookupTimestamps
                   ELSE {t \in LookupTimestamps : t >= StartTime - (max_history_minutes * 60)}
        stamps == {SetToSortedSeq(T) : T \in {U \in SUBSET allowed : Cardinality(U) <= MaxHistory}}
    IN UNION {{[i \in 1..Len(ts) |-> Entry(vals[i], ts[i])] :
                  vals \in [1..Len(ts) -> StoreValues]} : ts \in stamps}

InitLookup ==
    /\ clock = StartTime
    /\ \E key \in StoreKeys :
          \E history \in LookupHistories(key) :
             state = [k \in {key} |->
                        [latest |-> IF history = <<>>
                                    THEN Entry(1, StartTime - 3700)
                                    ELSE history[Len(history)],
                         history |-> history]]
    /\ last_alert_times = << >>
    /\ lastSet = NoSet
    /\ prevSet = NoSet
    /\ lastOp = "none"
    /\ nsets = 0
    /\ IdleMonitor
    /\ IdleLevels
    /\ IdleClient
    /\ IdleLookup
    /\ IdlePersist
    /\ IdlePositions

\* get_value_at_time(key, target_time), called d seconds after the save
GetValueAtTime(key, target_time, d) ==
    /\ lookup = NoLookup
    /\ clock' = clock + d
    /\ lookup' = [key |-> key, target_time |-> target_time, now |-> clock',
                  value |-> get_value_at_time(state, key, target_time, clock')]

NextLookup ==
    /\ \E key \in StoreKeys, target_time \in LookupTargets, d \in LookupDelays :
          GetValueAtTime(key, target_time, d)
    /\ UNCHANGED <<storeVars, monVars, levelVars, clientVars, persistVars, posVars>>

SpecLookup == InitLookup /\ [][NextLookup]_vars

-----------------------------------------------------------------------------
(* StateStore and its snapshot file: load_state and save_state *)

\* The text of the file is the sequence of the JSON tokens json.dump writes:
\* punctuation, strings, and numbers, which are written without a fraction
\* when they are integers (a value) and with one when they are floats (a
\* timestamp, 5060.0).  The times of the model are the whole seconds of such
\* floats.
TokPunct(c) == [kind |-> "punct", text |-> c, number |-> 0]
TokString(str) == [kind |-> "string", text |-> str, number |-> 0]
TokInt(n) == [kind |-> "int", text |-> "", number |-> n]
TokFloat(n) == [kind |-> "float", text |-> "", number |-> n]
LBrace == TokPunct("{")
RBrace == TokPunct("}")
LBracket == TokPunct("[")
RBracket == TokPunct("]")
Comma == TokPunct(",")
Colon == TokPunct(":")

\* the texts of parts, separated by commas
RECURSIVE Join(_)
Join(parts) ==
    IF parts = <<>> THEN <<>>
    ELSE IF Len(parts) = 1 THEN parts[1]
    ELSE parts[1] \o <<Comma>> \o Join(Tail(parts))

\* A dictionary is written in the order of its insertion, which the
\* functions of the model do not keep: the members are written in these
\* orders, and nothing below depends on the order.
MemberOrder == <<"A", "B", "_meta", TableKey>>
FieldOrder == <<"dvol_change", "value", "timestamp", "latest", "history">>
Ordered(order, keys) == SelectSeq(order, LAMBDA k : k \in keys)

\* {"value": v, "timestamp": t}
EncodeEntry(e) ==
    <<LBrace, TokString("value"), Colon, TokInt(e.value), Comma,
      TokString("timestamp"), Colon, TokFloat(e.timestamp), RBrace>>

\* a history: the list of its entries
EncodeHistory(history) ==
    <<LBracket>> \o Join([i \in 1..Len(history) |-> EncodeEntry(history[i])])
        \o <<RBracket>>

\* the value under one field of a series, of a record or of the cooldown
\* table, whose entries are times
EncodeField(data, field) ==
    CASE field = "latest" -> EncodeEntry(data.latest)
      [] field = "history" -> EncodeHistory(data.history)
      [] field = "value" -> <<TokInt(data.value)>>
      [] OTHER -> <<TokFloat(data[field])>>

\* the value under one key of self.state
EncodeValue(data) ==
    IF ~IsDict(data) THEN <<TokInt(data.scalar)>>
    ELSE LET fields == Ordered(FieldOrder, DOMAIN data) IN
         <<LBrace>>
            \o Join([i \in 1..Len(fields) |->
                        <<TokString(fields[i]), Colon>> \o EncodeField(data, fields[i])])
            \o <<RBrace>>

\* json.dump(self.state, f, indent=2): the tokens of the whole dictionary,
\* the cooldown table included
EncodeWrong(whole) ==
    LET keys == Ordered(MemberOrder, DOMAIN whole \ {TableKey}) IN
    <<LBrace>>
       \o Join([i \in 1..Len(keys) |->
                   <<TokString(keys[i]), Colon>> \o EncodeValue(whole[keys[i]])])
       \o <<RBrace>>
Encode(whole) ==
    LET keys == Ordered(MemberOrder, DOMAIN whole) IN
    <<LBrace>>
       \o Join([i \in 1..Len(keys) |->
                   <<TokString(keys[i]), Colon>> \o EncodeValue(whole[keys[i]])])
       \o <<RBrace>>

\* json.load: a value is read from the head of the tokens; a number or a
\* string directly under a key of the top dictionary is held as a scalar
ParseFailed == [ok |-> FALSE, value |-> <<>>, rest |-> <<>>]
Parsed(value, rest) == [ok |-> TRUE, value |-> value, rest |-> rest]
RECURSIVE ParseValue(_, _), ParseMembers(_, _, _), ParseItems(_, _, _)
ParseValue(tokens, depth) ==
    IF tokens = <<>> THEN ParseFailed
    ELSE LET t == Head(tokens) IN
         CASE t.kind \in {"int", "float"} ->
                Parsed(IF depth = 1 THEN [scalar |-> t.number] ELSE t.number, Tail(tokens))
           [] t.kind = "string" ->
                Parsed(IF depth = 1 THEN [scalar |-> t.text] ELSE t.text, Tail(tokens))
           [] t = LBrace ->
                IF Len(tokens) >= 2 /\ tokens[2] = RBrace
                THEN Parsed(<< >>, SubSeq(tokens, 3, Len(tokens)))
                ELSE ParseMembers(Tail(tokens), depth, << >>)
           [] t = LBracket ->
                IF Len(tokens) >= 2 /\ tokens[2] = RBracket
                THEN Parsed(<<>>, SubSeq(tokens, 3, Len(tokens)))
                ELSE ParseItems(Tail(tokens), depth, <<>>)
           [] OTHER -> ParseFailed
\* "key": value, followed by a comma and more members or by the closing brace
ParseMembers(tokens, depth, members) ==
    IF Len(tokens) < 2 \/ tokens[1].kind # "string" \/ tokens[2] # Colon THEN ParseFailed
    ELSE LET v == ParseValue(SubSeq(tokens, 3, Len(tokens)), depth + 1) IN
         IF ~v.ok \/ v.rest = <<>> THEN ParseFailed
         ELSE IF Head(v.rest) = RBrace
         THEN Parsed(With(members, tokens[1].text, v.value), Tail(v.rest))
         ELSE IF Head(v.rest) = Comma
         THEN ParseMembers(Tail(v.rest), depth, With(members, tokens[1].text, v.value))
         ELSE ParseFailed
\* value, followed by a comma and more items or by the closing bracket
ParseItems(tokens, depth, items) ==
    LET v == ParseValue(tokens, depth + 1) IN
    IF ~v.ok \/ v.rest = <<>> THEN ParseFailed
    ELSE IF Head(v.rest) = RBracket THEN Parsed(Append(items, v.value), Tail(v.rest))
    ELSE IF Head(v.rest) = Comma THEN ParseItems(Tail(v.rest), depth, Append(items, v.value))
    ELSE ParseFailed

\* json.load(f) on the file as it is: it raises on a text that is not one
\* whole JSON value, and on anything that follows the value
Decode(f) ==
    LET p == ParseValue(f.text, 0) IN
    IF p.ok /\ p.rest = <<>> /\ f.extra = 0
    THEN [ok |-> TRUE, value |-> p.value]
    ELSE [ok |-> FALSE, value |-> << >>]

\* A file is "missing"; "present", with its text; "writeonly", when it is
\* there with its text and the process may write it and not read it (mode
\* 0200): open(..., "r") raises and open(..., "w") does not; "unreadable",
\* when it is there and every open raises (a directory); or "unreachable",
\* when it lies under a directory the process may not search.  Path.exists()
\* is False on a missing file and True on a file that is there; on an
\* unreachable one it raises PermissionError before Python 3.14 and returns
\* False from 3.14 on.
ExistsOutcomes == {"raises", "false"}

\* load_state: self.filename.exists() is evaluated outside the try, so what
\* it raises leaves the constructor; what open and json.load raise is caught
\* and gives the empty store, as a missing file does
Load(f) ==
    CASE f.exists = "raises" -> [raised |-> TRUE, whole |-> << >>]
      [] f.exists = "false" -> [raised |-> FALSE, whole |-> << >>]
      [] f.status = "present" /\ Decode(f).ok -> [raised |-> FALSE, whole |-> Decode(f).value]
      [] OTHER -> [raised |-> FALSE, whole |-> << >>]

\* outcomes of the write in save_state: written, open(..., "w") raises, or
\* json.dump raises after the file was truncated
SaveOutcomes == {"ok", "open_fails", "dump_fails"}

\* what a json.dump that raises has written before: nothing, or the first
\* half of the text
DumpCuts == {"nothing", "half"}
CutText(text, cut) == IF cut = "half" THEN SubSeq(text, 1, Len(text) \div 2) ELSE <<>>

\* open(self.filename, "w") can succeed: the file is created, or is there
\* and may be written; a directory and an unreachable path make it raise
Openable(f) == f.status \in {"missing", "present", "writeonly"}

\* open(..., "w") creates a missing file and leaves the mode of a file that
\* is there as it is
WrittenStatus(f) == IF f.status = "writeonly" THEN "writeonly" ELSE "present"

\* save_state after the pruning: the file it leaves; saved logs the outcome
save_state(f, whole, io, cut) ==
    CASE io = "ok" ->
           [status |-> WrittenStatus(f), exists |-> "true", text |-> Encode(whole),
            extra |-> 0, saved |-> io]
      [] io = "open_fails" -> [f EXCEPT !.saved = io]
      [] io = "dump_fails" ->
           [status |-> WrittenStatus(f), exists |-> "true",
            text |-> CutText(Encode(whole), cut), extra |-> 0, saved |-> io]

\* keys of the series the snapshot is found with and the store is called with
PersistKeys == {"A", "B"}
PersistSteps == {0, 3599}
PersistAlertKeys == {"dvol_change"}

\* a series as an older snapshot holds it: a history and no "latest"
Unmarked(history) == [history |-> history]
Marked(e) == [latest |-> e, history |-> <<e>>]
\* a single record, as the oldest snapshots hold it
SingleRecord(e) == [value |-> e.value, timestamp |-> e.timestamp]

\* what a snapshot found at construction may hold under each key: an entry
\* that expires during the run, a history that is empty, a single record, a
\* number, a record with a latest marker; under the key with an underscore
\* an entry that has expired already
ShapesA == <<Marked(Entry(1, StartTime - 3599))>>
ShapesB == <<Unmarked(<<>>),
             Unmarked(<<Entry(1, StartTime - 3599)>>),
             SingleRecord(Entry(1, StartTime - 3599)),
             [scalar |-> 1],
             With(SingleRecord(Entry(1, StartTime - 3599)), "latest",
                  Entry(1, StartTime - 3599))>>
ShapesMeta == <<Unmarked(<<>>), Unmarked(<<Entry(1, StartTime - 3601)>>)>>
ShapesTable == <<[dvol_change |-> StartTime - 3599]>>

\* the dictionary with the i-th shape under key, or without the key when i is 0
Put(whole, key, shapes, i) == IF i = 0 THEN whole ELSE With(whole, key, shapes[i])

\* the text of a snapshot a store left
FoundTexts ==
    {Encode(Put(Put(Put(Put(<< >>, "A", ShapesA, a), "B", ShapesB, b),
                    "_meta", ShapesMeta, m), TableKey, ShapesTable, t)) :
        a \in 0..Len(ShapesA), b \in 0..Len(ShapesB), m \in 0..Len(ShapesMeta),
        t \in 0..Len(ShapesTable)}

FileWith(text) ==
    [status |-> "present", exists |-> "true", text |-> text, extra |-> 0, saved |-> "none"]

\* the snapshots found in files the process may write and not read
WriteOnlyTexts ==
    {Encode(Put(Put(<< >>, "A", ShapesA, a), TableKey, ShapesTable, t)) :
        a \in 0..Len(ShapesA), t \in 0..Len(ShapesTable)}

\* the files a store may be constructed on: none, one that cannot be opened,
\* one that cannot be reached, a snapshot, a snapshot cut short, and a
\* snapshot that may be written and not read
InitialFiles ==
    {NoFile, [NoFile EXCEPT !.status = "unreadable", !.exists = "true"]}
    \cup {[FileWith(text) EXCEPT !.status = "writeonly"] : text \in WriteOnlyTexts}
    \cup {[NoFile EXCEPT !.status = "unreachable", !.exists = e] : e \in ExistsOutcomes}
    \cup {FileWith(text) : text \in FoundTexts}
    \cup {FileWith(CutText(text, "half")) : text \in FoundTexts}

\* a store was constructed, and its methods can be called
Constructed == lastOp # "construct_raised"

\* StateStore(filename): the state after construction
InitPersistStore ==
    /\ file \in InitialFiles
    /\ peer = NoPeer
    /\ procs = NoProcs
    /\ state = SeriesOf(Load(file).whole)
    /\ last_alert_times = TableOf(Load(file).whole)
    /\ lastSet = NoSet
    /\ prevSet = NoSet
    /\ lastOp = IF Load(file).raised THEN "construct_raised" ELSE "none"
    /\ nsets = 0

\* StateStore(filename) constructed again on the file as it is now
Construct ==
    /\ nsets < MaxSets
    /\ Hold(Load(file).whole)
    /\ lastOp' = IF Load(file).raised THEN "construct_raised" ELSE "construct"
    /\ nsets' = nsets + 1
    /\ UNCHANGED <<clock, lastSet, prevSet, file>>

\* the outcomes the write of a save may have on the file
WriteChoices(f, io, cut) ==
    /\ ~Openable(f) => io = "open_fails"
    /\ io # "dump_fails" => cut = "nothing"

\* StateStore.set with the write of its save_state
SetSaved(key, value, off, d, io, cut) ==
    /\ Constructed
    /\ WriteChoices(file, io, cut)
    /\ Set(key, value, off, d)
    /\ file' = save_state(file, Whole(state', last_alert_times'), io, cut)

\* StateStore.set_last_alert_time with the write of its save_state
SetLastAlertTimeSaved(alert_key, d, io, cut) ==
    /\ Constructed
    /\ WriteChoices(file, io, cut)
    /\ SetLastAlertTime(alert_key, d)
    /\ file' = save_state(file, Whole(state', last_alert_times'), io, cut)

InitPersist ==
    /\ clock = StartTime /\ InitPersistStore /\ IdleMonitor /\ IdleLevels /\ IdleClient
    /\ IdleLookup /\ IdlePositions

NextPersist ==
    \/ /\ \E key \in PersistKeys, d \in PersistSteps, io \in SaveOutcomes,
             cut \in DumpCuts :
              SetSaved(key, 1, 0, d, io, cut)
       /\ UNCHANGED <<monVars, levelVars, clientVars, lookupVars, posVars, peer, procs>>
    \/ /\ \E alert_key \in PersistAlertKeys, d \in PersistSteps, io \in SaveOutcomes,
             cut \in DumpCuts :
              SetLastAlertTimeSaved(alert_key, d, io, cut)
       /\ UNCHANGED <<monVars, levelVars, clientVars, lookupVars, posVars, peer, procs>>
    \/ /\ Construct
       /\ UNCHANGED <<monVars, levelVars, clientVars, lookupVars, posVars, peer, procs>>

SpecPersist == InitPersist /\ [][NextPersist]_vars

-----------------------------------------------------------------------------
(* Two processes, each with a StateStore on the same file *)

\* Each process is sequential; the other runs between any two of its system
\* calls.  A save is open(filename, "w"), which truncates the file, and the
\* write of the text when the file is closed (json.dump fills the buffer of
\* the file object, which is flushed at close for a snapshot of this size).
\* A delivery is the cooldown check, the post to the webhook, and, when the
\* post has returned, set_last_alert_time with its save.

Processes == {"own", "peer"}
Other(who) == IF who = "own" THEN "peer" ELSE "own"

\* the file the processes start on: none yet, or a snapshot with a firing
\* recorded long ago
SharedFiles == {NoFile, FileWith(Encode(Put(<< >>, TableKey, ShapesTable, 1)))}
SharedKeys == {"A"}
SharedAlertKeys == {"dvol_change"}
SharedSteps == {60, 300}
SharedOutcomes == {"ok", "open_fails"}

\* the characters of one token: a string in its quotes, an integer in its
\* digits, a float in its digits and ".0", a mark of punctuation
Digits(n) ==
    IF n < 10 THEN 1 ELSE IF n < 100 THEN 2 ELSE IF n < 1000 THEN 3
    ELSE IF n < 10000 THEN 4 ELSE 5
TokenLength(t) ==
    CASE t.kind = "string" -> Len(t.text) + 2
      [] t.kind = "int" -> Digits(t.number)
      [] t.kind = "float" -> Digits(t.number) + 2
      [] OTHER -> 1
Opens(t) == t \in {LBrace, LBracket}
Closes(t) == t \in {RBrace, RBracket}

\* the number of characters json.dump(indent=2) writes from token i on, at
\* nesting depth: after an opening mark and after a comma a new line
\* indented by two spaces for each level, before a closing mark a new line
\* indented one level less, after a colon a space; an empty dictionary and
\* an empty list are written "{}" and "[]"
RECURSIVE Layout(_, _, _)
Layout(tokens, i, depth) ==
    IF i > Len(tokens) THEN 0
    ELSE LET t == tokens[i] IN
         CASE Opens(t) ->
                (IF i < Len(tokens) /\ Closes(tokens[i + 1]) THEN 1 ELSE 2 + 2 * (depth + 1))
                    + Layout(tokens, i + 1, depth + 1)
           [] Closes(t) ->
                (IF i > 1 /\ Opens(tokens[i - 1]) THEN 1 ELSE 2 + 2 * (depth - 1))
                    + Layout(tokens, i + 1, depth - 1)
           [] t = Comma -> 2 + 2 * depth + Layout(tokens, i + 1, depth)
           [] t = Colon -> 2 + Layout(tokens, i + 1, depth)
           [] OTHER -> TokenLength(t) + Layout(tokens, i + 1, depth)
TextLength(text) == Layout(text, 1, 0)

\* the length of the file: its text and what an older, longer text left
\* behind it
FileLength(f) == TextLength(f.text) + f.extra

\* open(filename, "w") returned: the file is there and empty, which
\* json.load rejects
Truncate(f) ==
    [status |-> WrittenStatus(f), exists |-> "true", text |-> <<>>, extra |-> 0,
     saved |-> f.saved]

\* the text is written from the start of the file, over what is there now:
\* a text at least as long as the file's replaces it; a shorter one leaves
\* the tail of the longer behind it, which json.load rejects
WriteOver(f, whole) ==
    LET text == Encode(whole) IN
    [save_state(f, whole, "ok", "nothing") EXCEPT
        !.extra = IF TextLength(text) >= FileLength(f) THEN 0
                  ELSE FileLength(f) - TextLength(text)]

\* the store in the memory of a process
Memory(who) ==
    IF who = "own" THEN [state |-> state, last_alert_times |-> last_alert_times] ELSE peer
MemoryOf(who) == Whole(Memory(who).state, Memory(who).last_alert_times)
Remember(who, whole) ==
    IF who = "own"
    THEN Hold(whole) /\ peer' = peer
    ELSE /\ peer' = [state |-> SeriesOf(whole), last_alert_times |-> TableOf(whole)]
         /\ state' = state /\ last_alert_times' = last_alert_times

\* what the logs keep of a write and of a delivery: the process, and whether
\* its save left its text in the file
WriteBy(who, key, value, timestamp) ==
    [key |-> key, value |-> value, timestamp |-> timestamp, by |-> who, persisted |-> FALSE]
DeliveryBy(who, alert_key, time, last) ==
    [key |-> alert_key, time |-> time, last |-> last, eligible |-> TRUE,
     attempted |-> TRUE, success |-> TRUE, by |-> who, persisted |-> FALSE]
\* the last entry of the log that process who made
LastBy(log, who) ==
    CHOOSE i \in 1..Len(log) :
        log[i].by = who /\ \A j \in (i + 1)..Len(log) : log[j].by # who
MarkPersisted(log, who) == [log EXCEPT ![LastBy(log, who)].persisted = TRUE]

\* no process has constructed its store yet
InitShared ==
    /\ clock = StartTime
    /\ file \in SharedFiles
    /\ state = << >>
    /\ last_alert_times = << >>
    /\ peer = NoPeer
    /\ procs = NoProcs
    /\ lastSet = NoSet
    /\ prevSet = NoSet
    /\ lastOp = "none"
    /\ nsets = 0
    /\ IdleMonitor /\ IdleLevels /\ IdleClient /\ IdleLookup /\ IdlePositions

\* the open of save_state: the file is truncated, or open raises and
\* save_state logs the failure and returns
OpenForSave(who, op, key, time, io) ==
    IF io = "ok"
    THEN /\ file' = Truncate(file)
         /\ procs' = [procs EXCEPT ![who] = [pc |-> "opened", op |-> op, key |-> key, time |-> time]]
    ELSE /\ file' = [file EXCEPT !.saved = io]
         /\ procs' = [procs EXCEPT ![who] = [pc |-> "idle", op |-> op, key |-> key, time |-> time]]

\* StateStore(filename): load_state reads the file as it is now
Start(who) ==
    /\ procs[who].pc = "unstarted"
    /\ ~Load(file).raised
    /\ Remember(who, Load(file).whole)
    /\ procs' = [procs EXCEPT ![who].pc = "idle"]
    /\ lastOp' = who \o "_construct"
    /\ UNCHANGED <<clock, file, lastSet, prevSet, nsets, alerts, writes>>

\* set(key, value, timestamp) up to the open of its save_state
SetBegin(who, key, d, io) ==
    /\ procs[who].pc = "idle"
    /\ nsets < MaxSets
    /\ clock' = clock + d
    /\ Remember(who, StoreSet(MemoryOf(who), key, 1, clock', clock'))
    /\ OpenForSave(who, "set", key, clock', io)
    /\ writes' = Append(writes, WriteBy(who, key, 1, clock'))
    /\ lastOp' = who \o "_set"
    /\ nsets' = nsets + 1
    /\ UNCHANGED <<lastSet, prevSet, alerts>>

\* a level check finds the key eligible in the table of its process and
\* sends the post to the webhook
CheckAndPost(who, alert_key, d) ==
    /\ procs[who].pc = "idle"
    /\ nsets < MaxSets
    /\ clock' = clock + d
    /\ _should_alert(Memory(who).last_alert_times, alert_key, clock')
    /\ procs' = [procs EXCEPT ![who] =
                    [pc |-> "posting", op |-> "deliver", key |-> alert_key, time |-> clock']]
    /\ lastOp' = who \o "_post"
    /\ nsets' = nsets + 1
    /\ UNCHANGED <<state, last_alert_times, peer, file, lastSet, prevSet, alerts, writes>>

\* the post returned success: set_last_alert_time(alert_key, current_time)
\* up to the open of its save_state
PostReturns(who, io) ==
    /\ procs[who].pc = "posting"
    /\ Remember(who, StoreSetLastAlert(MemoryOf(who), procs[who].key, procs[who].time,
                                       clock))
    /\ OpenForSave(who, "deliver", procs[who].key, procs[who].time, io)
    /\ alerts' = Append(alerts,
                        DeliveryBy(who, procs[who].key, procs[who].time,
                                   get_last_alert_time(Memory(who).last_alert_times,
                                                       procs[who].key)))
    /\ lastOp' = who \o "_set_last_alert_time"
    /\ UNCHANGED <<clock, lastSet, prevSet, nsets, writes>>

\* the post failed: send_feishu_alert returns False and nothing is recorded
PostFails(who) ==
    /\ procs[who].pc = "posting"
    /\ procs' = [procs EXCEPT ![who].pc = "idle"]
    /\ lastOp' = who \o "_post_failed"
    /\ UNCHANGED <<clock, state, last_alert_times, peer, file, lastSet, prevSet, nsets,
                   alerts, writes>>

\* json.dump and the close of save_state
WriteAndClose(who) ==
    /\ procs[who].pc = "opened"
    /\ file' = WriteOver(file, MemoryOf(who))
    /\ procs' = [procs EXCEPT ![who].pc = "idle"]
    /\ IF Decode(file').ok
       THEN IF procs[who].op = "set"
            THEN writes' = MarkPersisted(writes, who) /\ alerts' = alerts
            ELSE alerts' = MarkPersisted(alerts, who) /\ writes' = writes
       ELSE UNCHANGED <<alerts, writes>>
    /\ lastOp' = who \o "_write"
    /\ UNCHANGED <<clock, state, last_alert_times, peer, lastSet, prevSet, nsets>>

\* what the steps of the two processes leave alone
SharedFrame ==
    UNCHANGED <<pc, current_time, all_positions, dvol_data, cycles, cycle_result,
                configVars, failures, slept, trend,
                levelVars, clientVars, lookupVars, posVars>>

NextShared ==
    \/ /\ \E who \in Processes : Start(who)
       /\ SharedFrame
    \/ /\ \E who \in Processes, key \in SharedKeys, d \in SharedSteps, io \in SharedOutcomes :
             SetBegin(who, key, d, io)
       /\ SharedFrame
    \/ /\ \E who \in Processes, alert_key \in SharedAlertKeys, d \in SharedSteps :
             CheckAndPost(who, alert_key, d)
       /\ SharedFrame
    \/ /\ \E who \in Processes, io \in SharedOutcomes : PostReturns(who, io)
       /\ SharedFrame
    \/ /\ \E who \in Processes : PostFails(who)
       /\ SharedFrame
    \/ /\ \E who \in Processes : WriteAndClose(who)
       /\ SharedFrame

SpecShared == InitShared /\ [][NextShared]_vars

-----------------------------------------------------------------------------
(* Properties of the level classification *)

TierRank(tier) == IF tier = "light" THEN 1 ELSE IF tier = "medium" THEN 2 ELSE 3
Tiers == {"light", "medium", "heavy"}
TiersMet(m, t) == {tier \in Tiers : m >= t[TierRank(tier)]}

\* C5: for Gamma and for Vega, with ascending thresholds, the candidate
\* severity is the highest tier whose threshold the magnitude meets or
\* exceeds (equality counts) and there is none below light; with 10/50/100
\* (0.0001/0.0005/0.001) 70 is medium, 110 is heavy and 5 is no alert.
C5_HighestTierMet ==
    level_metric # "none" =>
        LET m == Abs(level_value)
            met == TiersMet(m, thresholds)
        IN /\ (met = {}) = (severity = <<>>)
           /\ (m < thresholds[1]) = (severity = <<>>)
           /\ \A tier \in Tiers :
                 (severity = <<tier>>) =
                    (tier \in met /\ \A other \in met : TierRank(other) <= TierRank(tier))
           /\ (thresholds = <<10, 50, 100>> /\ m = 70) => severity = <<"medium">>
           /\ (thresholds = <<10, 50, 100>> /\ m = 110) => severity = <<"heavy">>
           /\ (thresholds = <<10, 50, 100>> /\ m = 5) => severity = <<>>

\* a negative Gamma whose magnitude equals the medium threshold is medium
C5_Witness ==
    /\ level_metric = "gamma"
    /\ thresholds = <<1, 2, 3>>
    /\ level_value = 0 - 2
    /\ severity = <<"medium">>

-----------------------------------------------------------------------------
(* Properties of the evaluator *)

NewAlerts == {alerts'[i] : i \in (Len(alerts) + 1)..Len(alerts')}
NewWrites == {writes'[i] : i \in (Len(writes) + 1)..Len(writes')}

\* C1: two successful deliveries of one alert key are never less than
\* cooldown_seconds apart, and a candidate whose key has no recorded firing,
\* or whose recorded firing is at least cooldown_seconds before the cycle
\* time, is eligible.
C1_CooldownSpacing ==
    /\ \A i \in 1..Len(alerts) : \A j \in 1..Len(alerts) :
          (i < j /\ alerts[i].key = alerts[j].key
                 /\ alerts[i].success /\ alerts[j].success)
             => alerts[j].time - alerts[i].time >= cooldown_seconds
    /\ \A i \in 1..Len(alerts) :
          (\/ alerts[i].last = <<>>
           \/ alerts[i].time - alerts[i].last[1] >= cooldown_seconds)
             => alerts[i].eligible

\* a key is delivered, suppressed inside the cooldown and delivered again
\* once the cooldown has passed
C1_Witness ==
    \E i \in 1..Len(alerts) : \E j \in 1..Len(alerts) : \E k \in 1..Len(alerts) :
        /\ i < j /\ j < k
        /\ alerts[i].key = alerts[j].key /\ alerts[j].key = alerts[k].key
        /\ alerts[i].success
        /\ ~alerts[j].eligible
        /\ alerts[k].success
        /\ alerts[k].time - alerts[i].time >= cooldown_seconds

NoSuccessBetween(i, j) ==
    \A k \in 1..Len(alerts) :
        (i < k /\ k < j /\ alerts[k].key = alerts[i].key) => ~alerts[k].success

\* a delivery is retried: the candidate after a failed delivery of its key
\* finds the table entry as the failed one found it
RetriedAfterFailure ==
    \A i \in 1..Len(alerts) : \A j \in 1..Len(alerts) :
        (/\ i < j /\ alerts[i].key = alerts[j].key
         /\ alerts[i].attempted /\ ~alerts[i].success
         /\ alerts[i].time <= alerts[j].time
         /\ NoSuccessBetween(i, j))
        => /\ alerts[j].last = alerts[i].last
           /\ alerts[j].eligible
           /\ alerts[j].attempted

\* C2: the last-firing time of a key is set, to the cycle time, exactly when
\* the channel reports success; a failed delivery leaves the entry as it
\* was, so the next candidate of that key is attempted again.
C2_RecordedOnSuccessOnly ==
    [][ /\ \A e \in NewAlerts :
              e.success => get_last_alert_time(last_alert_times', e.key) = <<current_time>>
        /\ \A i \in (Len(alerts) + 1)..Len(alerts') :
              (/\ ~alerts'[i].success
               /\ \A j \in (i + 1)..Len(alerts') :
                     alerts'[j].key = alerts'[i].key => ~alerts'[j].success)
              => get_last_alert_time(last_alert_times', alerts'[i].key) = alerts'[i].last
        /\ \A k \in DOMAIN last_alert_times' :
              get_last_alert_time(last_alert_times', k) # get_last_alert_time(last_alert_times, k)
                 => \E e \in NewAlerts : e.key = k /\ e.success
        /\ RetriedAfterFailure' ]_vars

\* a delivery failed in one cycle and the same key was delivered in a later cycle
C2_Witness ==
    \E i \in 1..Len(alerts) : \E j \in 1..Len(alerts) :
        /\ i < j /\ alerts[i].key = alerts[j].key
        /\ alerts[i].attempted /\ ~alerts[i].success
        /\ alerts[i].time < alerts[j].time
        /\ alerts[j].success
        /\ get_last_alert_time(last_alert_times, alerts[j].key) = <<alerts[j].time>>

\* C6: in a cycle where the store holds no history for the observed key (an
\* instrument or the volatility index) the absolute-level check is still
\* made and its candidate decided, and the observation is written.
C6_LevelCheckedWithoutHistory ==
    [][ /\ \A i \in 1..Len(all_positions) :
            (pc = "positions" /\ HistoryOf(all_positions[i].instrument_name) = <<>>)
            => LET position == all_positions[i] IN
               /\ \E w \in NewWrites : /\ w.key = position.instrument_name
                                        /\ w.timestamp = current_time
               /\ Abs(position.gamma) >= gamma_level_1_light
                     => \E e \in NewAlerts : \E tier \in Tiers :
                           e.key = position.instrument_name \o "_gamma_level_" \o tier
               /\ Abs(position.vega) >= vega_level_1_light
                     => \E e \in NewAlerts : \E tier \in Tiers :
                           e.key = position.instrument_name \o "_vega_level_" \o tier
        /\ (pc = "check_dvol" /\ dvol_data # <<>> /\ HistoryOf("dvol") = <<>>)
            => /\ \E w \in NewWrites : w.key = "dvol" /\ w.timestamp = current_time
               /\ dvol_data[1] >= abs_value_threshold
                     => \E e \in NewAlerts : e.key = "dvol_abs_value" ]_vars

\* C9: the index stage of a cycle whose index query returned no data, the
\* query and the step after it, changes neither the cooldown table nor any
\* series, writes nothing, delivers nothing, and the cycle ends inside run().
C9_NoDataNoEffect ==
    [][ (pc \in {"dvol", "check_dvol"} /\ dvol_data' = <<>>)
          => /\ UNCHANGED <<state, last_alert_times, alerts, failures, writes>>
             /\ pc' \in {"check_dvol", "idle"}
             /\ pc = "check_dvol" => pc' = "idle"
             /\ pc' = "idle" => /\ cycles' = cycles + 1
                                /\ cycle_result' \in {"completed", "caught"} ]_vars

\* a cycle has checked a position and delivered its alert, and then found no index data
C9_Witness ==
    /\ pc = "idle" /\ cycles >= 1
    /\ dvol_data = <<>>
    /\ cycle_result = "completed"
    /\ writes # <<>>
    /\ \E i \in 1..Len(alerts) : alerts[i].success /\ alerts[i].time = current_time
    /\ "dvol" \in DOMAIN state

-----------------------------------------------------------------------------
(* Properties of the store *)

RECURSIVE SeqToSet(_)
SeqToSet(s) == IF s = <<>> THEN {} ELSE {Head(s)} \cup SeqToSet(Tail(s))

\* the entries of key's history whose timestamp is within 1 second of t
RECURSIVE Near(_, _)
Near(s, t) ==
    IF s = <<>> THEN <<>>
    ELSE IF Abs(Head(s).timestamp - t) <= 1
         THEN <<Head(s)>> \o Near(Tail(s), t)
         ELSE Near(Tail(s), t)

RetentionCutoff(now) == now - (max_history_minutes * 60)

\* C7 as stated: after a store call returns, no history of any key holds an
\* entry older than now minus the retention window.
C7_AllKeysPruned ==
    lastOp = "set" =>
        \A key \in DOMAIN Whole(state, last_alert_times) :
            \A e \in SeqToSet(HistoryOf(key)) :
                e.timestamp >= RetentionCutoff(lastSet.now)

\* C7 amended: after a set call returns, no history of a key that does not
\* start with an underscore and is not "last_alert_times" holds an entry
\* older than the clock reading of that call's pruning minus the retention
\* window.
C7_SeriesKeysPruned ==
    lastOp = "set" =>
        \A key \in DOMAIN Whole(state, last_alert_times) : ~Skipped(key) =>
            \A e \in SeqToSet(HistoryOf(key)) :
                e.timestamp >= RetentionCutoff(lastSet.now)

\* a set on another key has pruned an entry of "A" that an earlier set retained
C7_Witness ==
    /\ lastOp = "set"
    /\ prevSet.key = "A" /\ lastSet.key = "_meta"
    /\ prevSet.timestamp >= RetentionCutoff(prevSet.now)
    /\ prevSet.timestamp < RetentionCutoff(lastSet.now)
    /\ "A" \in DOMAIN state /\ state["A"].history = <<>>

TwoSetsWithinOneSecond ==
    /\ lastOp = "set"
    /\ prevSet.key = lastSet.key
    /\ Abs(prevSet.timestamp - lastSet.timestamp) <= 1

\* C8 as stated: two set calls on one key with timestamps within 1 second
\* leave exactly one history entry near them, the later call's.
C8_ExactlyOneEntry ==
    TwoSetsWithinOneSecond =>
        Near(HistoryOf(lastSet.key), lastSet.timestamp)
            = <<Entry(lastSet.value, lastSet.timestamp)>>

\* C8 amended: the later call's entry is the only one near its timestamp
\* when that timestamp is inside the retention window (or the key starts
\* with an underscore or is "last_alert_times", which pruning skips); when
\* it is older, the call's own pruning removes it and no entry is left there.
C8_OneEntryUnlessPruned ==
    TwoSetsWithinOneSecond =>
        Near(HistoryOf(lastSet.key), lastSet.timestamp)
            = IF \/ Skipped(lastSet.key)
                 \/ lastSet.timestamp >= RetentionCutoff(lastSet.now)
              THEN <<Entry(lastSet.value, lastSet.timestamp)>>
              ELSE <<>>

\* the second of two calls one second apart, with another value, has replaced the first
C8_Witness ==
    /\ TwoSetsWithinOneSecond
    /\ prevSet.timestamp # lastSet.timestamp
    /\ prevSet.value # lastSet.value
    /\ prevSet.timestamp >= RetentionCutoff(lastSet.now)
    /\ HistoryOf(lastSet.key) = <<Entry(lastSet.value, lastSet.timestamp)>>

-----------------------------------------------------------------------------
(* Properties of the client *)

CallsSent == SelectSeq(sent, LAMBDA m : m.kind = "call")
AuthsSent == SelectSeq(sent, LAMBDA m : m.kind = "auth")
Finished == cpc = "idle" /\ result \in {"failure", "value"}
\* authenticate() returned False: _make_request gave it None, or a result
\* without an access token; on a result that is not an object it raises
AuthReturnedFalse(outcome) == outcome \notin {"result", "result_not_object"}
AllCallsTimedOut == \A i \in 1..Len(CallsSent) : CallsSent[i].outcome = "timeout"

\* C3 as stated: a call whose every transport attempt times out has made one
\* authentication attempt if it is private (none otherwise) and exactly 3
\* transport attempts of its own, and returns failure.  Read in the most
\* favourable way: only calls that got to transmit are considered.
C3_OneAuthIfPrivate ==
    (Finished /\ Len(CallsSent) > 0 /\ AllCallsTimedOut)
        => /\ Len(AuthsSent) = (IF IsPrivate(method_name) THEN 1 ELSE 0)
           /\ Len(CallsSent) = 3
           /\ result = "failure"

\* C3 amended: when every transport attempt of a call times out, the call
\* returns failure; it has made one authentication attempt exactly when it is
\* private and found no valid token, none otherwise; and it has made exactly
\* retry_times = 3 transport attempts of its own, or none when that
\* authentication failed.
C3_OneAuthIfTokenInvalid ==
    (Finished /\ AllCallsTimedOut)
        => LET needed == IsPrivate(method_name) /\ ~valid_at_start
               authFailed == needed /\ \E i \in 1..Len(AuthsSent) :
                                           AuthsSent[i].outcome # "result"
           IN /\ Len(AuthsSent) = (IF needed THEN 1 ELSE 0)
              /\ Len(CallsSent) = (IF authFailed THEN 0 ELSE 3)
              /\ Len(sent) <= 4
              /\ result = "failure"

\* a private call with a valid token times out three times, after waits of 1 and 2
C3_Witness ==
    /\ Finished
    /\ IsPrivate(method_name)
    /\ valid_at_start
    /\ Len(sent) = 3
    /\ AllCallsTimedOut
    /\ Len(CallsSent) = 3
    /\ sleeps = <<1, 2>>
    /\ result = "failure"

\* the position in sent of the first transmission of the call itself, 0 if none
FirstCallIndex ==
    IF Len(CallsSent) = 0 THEN 0
    ELSE CHOOSE i \in 1..Len(sent) :
            /\ sent[i].kind = "call"
            /\ \A j \in 1..(i - 1) : sent[j].kind # "call"

StaleOnFirstAttempt ==
    /\ IsPrivate(method_name)
    /\ FirstCallIndex > 0
    /\ sent[FirstCallIndex].attempt = 0
    /\ sent[FirstCallIndex].outcome = "error_stale"

\* C4 as stated: after a stale-token error on the first attempt of a private
\* call the next transmission is one authentication; if it obtains a token,
\* the transmission after it is the second attempt of the call and carries
\* that token; if it does not, whether authenticate returned False or
\* raised, the call has failed and nothing more is transmitted.
C4_ReauthThenNewToken ==
    StaleOnFirstAttempt =>
        LET i == FirstCallIndex IN
        /\ cpc # "reauth" => Len(sent) > i
        /\ Len(sent) > i =>
              /\ sent[i + 1].kind = "auth"
              /\ IF sent[i + 1].outcome = "result"
                 THEN /\ cpc = "attempt" => (attempt >= 1 /\ Len(sent) >= i + 1)
                      /\ Finished => Len(sent) >= i + 2
                      /\ Len(sent) >= i + 2 =>
                            /\ sent[i + 2].kind = "call"
                            /\ sent[i + 2].attempt = 1
                            /\ sent[i + 2].bearer = <<sent[i + 1].token>>
                            /\ sent[i + 2].bearer # sent[i].bearer
                 ELSE /\ Len(sent) = i + 1
                      /\ Finished
                      /\ result = "failure"

\* C10: a private call that finds no token, or an expired one, transmits one
\* authentication first and never a second one before its own request; if
\* that authentication fails the call has returned failure and nothing of its
\* own was transmitted.
C10_OneAuthBeforeSending ==
    (result # "none" /\ IsPrivate(method_name) /\ ~valid_at_start /\ cpc # "preauth")
        => /\ Len(sent) >= 1
           /\ sent[1].kind = "auth"
           /\ Len(sent) >= 2 => sent[2].kind = "call"
           /\ IF sent[1].outcome = "result"
              THEN FirstCallIndex \in {0, 2}
              ELSE /\ cpc = "idle"
                   /\ AuthReturnedFalse(sent[1].outcome) => (Finished /\ result = "failure")
                   /\ Len(sent) = 1
                   /\ Len(CallsSent) = 0

\* the token had expired, the authentication timed out, nothing else was sent
C10_Witness ==
    /\ Finished
    /\ IsPrivate(method_name)
    /\ token # <<>>
    /\ clock >= token_expires_at
    /\ ~valid_at_start
    /\ Len(sent) = 1
    /\ sent[1].kind = "auth"
    /\ sent[1].outcome = "timeout"
    /\ result = "failure"

\* a step that transmits the request of the call itself
CallTransmitted ==
    /\ cpc = "attempt"
    /\ Len(sent') = Len(sent) + 1
    /\ sent'[Len(sent')].kind = "call"

\* C11: when an attempt is answered with an application error that is not a
\* stale-token error, the call has failed in that step: nothing is slept, no
\* authentication is made and no attempt is left to make.
C11_OtherErrorIsTerminal ==
    [][(CallTransmitted /\ sent'[Len(sent')].outcome = "error_other")
          => /\ cpc' = "idle"
             /\ result' = "failure"
             /\ sleeps' = sleeps
             /\ clock' = clock
             /\ request_id' = request_id
             /\ token' = token
             /\ attempt' = attempt]_vars

\* the second attempt, made after a timeout, was answered with such an error
C11_Witness ==
    /\ Finished
    /\ result = "failure"
    /\ Len(sent) = 2
    /\ sent[1].kind = "call"
    /\ sent[1].outcome = "timeout"
    /\ sent[2].kind = "call"
    /\ sent[2].outcome = "error_other"
    /\ sleeps = <<1>>

\* C13: after an attempt of index k that timed out, failed in transport or got
\* a status other than 200, the client sleeps 2^k seconds and transmits
\* again if attempts remain; after a TLS failure it sleeps 3 + 2^k seconds;
\* after the last attempt it does not sleep.
C13_BackoffSchedule ==
    [][(CallTransmitted /\ sent'[Len(sent')].outcome \in
            {"timeout", "request_exception", "http_error", "ssl"})
          => LET k == sent'[Len(sent')].attempt
                 wait == IF sent'[Len(sent')].outcome = "ssl" THEN 3 + 2 ^ k ELSE 2 ^ k
             IN IF k < 2
                THEN /\ sleeps' = Append(sleeps, wait)
                     /\ clock' = clock + wait
                     /\ cpc' = "attempt"
                     /\ attempt' = k + 1
                ELSE /\ sleeps' = sleeps
                     /\ clock' = clock
                     /\ cpc' = "idle"
                     /\ result' = "failure"]_vars

\* 3 + 2^0 seconds after a TLS failure, 2^1 after a status other than 200,
\* nothing after the third attempt
C13_Witness ==
    /\ Finished
    /\ Len(sent) = 3
    /\ sent[1].outcome = "ssl"
    /\ sent[2].outcome = "http_error"
    /\ sent[3].outcome = "timeout"
    /\ sleeps = <<4, 2>>
    /\ result = "failure"

\* C12 as stated: when the body of a 200 response is not valid JSON, or is
\* JSON that is not an envelope object, the call has failed in that step:
\* nothing is slept and no attempt is left to make.
C12_UndecodableIsTerminal ==
    [][(CallTransmitted /\ sent'[Len(sent')].outcome \in {"invalid_json", "not_envelope"})
          => /\ cpc' = "idle"
             /\ result' = "failure"
             /\ sleeps' = sleeps
             /\ clock' = clock]_vars

\* the authentications made after the first transmission of the call itself
ReauthsSent ==
    SelectSeq(SubSeq(sent, FirstCallIndex + 1, Len(sent)), LAMBDA m : m.kind = "auth")

\* C14 as stated: one call re-authenticates at most once in reaction to
\* stale-token errors, whatever the later attempts are answered.
C14_AtMostOneReauth ==
    FirstCallIndex > 0 => Len(ReauthsSent) <= 1

\* C18 as stated: no exception leaves _make_request, whatever the transport
\* does and whatever the responses hold, those to public/auth included.
C18_NeverRaises ==
    result # "raised"

\* the call returned (it did not raise)
Returned == cpc = "idle" /\ result \notin {"none", "raised"}

\* C15: a call never transmits its own request more than retry_times = 3
\* times; what it returns is the result when its last transmission was
\* answered with one, and the failure value otherwise; and a call that has
\* begun comes to an end.
C15_TerminatesWithinRetries ==
    /\ [](/\ Len(CallsSent) <= 3
          /\ Returned =>
                IF /\ Len(sent) > 0
                   /\ sent[Len(sent)].kind = "call"
                   /\ sent[Len(sent)].outcome = "result"
                THEN result = "value"
                ELSE result = "failure")
    /\ ((cpc # "idle") ~> (cpc = "idle"))

\* three transmissions were made and the third was answered with a result
C15_Witness ==
    /\ Returned
    /\ Len(CallsSent) = 3
    /\ Len(sent) = 3
    /\ sent[1].outcome = "http_error"
    /\ sent[2].outcome = "request_exception"
    /\ sent[3].outcome = "result"
    /\ result = "value"

\* a step in which public/auth is transmitted
AuthTransmitted ==
    /\ Len(sent') = Len(sent) + 1
    /\ sent'[Len(sent')].kind = "auth"

\* C16: every transmission of the call itself carries the one identifier of
\* the call; every authentication carries an identifier of its own; an
\* identifier is greater than every identifier taken before it, so none is
\* used by two calls; and each envelope built advances the counter by one.
C16_RequestIdsUnique ==
    /\ [](/\ \A i \in 1..Len(sent) :
                /\ sent[i].id <= request_id
                /\ sent[i].kind = "call" => sent[i].id = body_id
                /\ sent[i].kind = "auth" =>
                      \A j \in 1..Len(sent) : j # i => sent[j].id # sent[i].id
                /\ (sent[i].kind = "auth" \/ i = FirstCallIndex) =>
                      \A j \in 1..(i - 1) : sent[j].id < sent[i].id)
    /\ [][/\ AuthTransmitted => sent'[Len(sent')].id > request_id
          /\ body_id' # body_id => (body_id' > request_id /\ body_id' = request_id')
          /\ request_id' = request_id + (IF AuthTransmitted THEN 1 ELSE 0)
                                      + (IF body_id' # body_id THEN 1 ELSE 0)]_vars

\* authentication 2, the call 3, re-authentication 4, the call again 3
C16_Witness ==
    /\ Len(sent) = 4
    /\ sent[1].kind = "auth" /\ sent[1].id = 2
    /\ sent[2].kind = "call" /\ sent[2].id = 3
    /\ sent[3].kind = "auth" /\ sent[3].id = 4
    /\ sent[4].kind = "call" /\ sent[4].id = 3
    /\ request_id = 4

\* a step in which a call begins
CallBegins == cpc = "idle" /\ cpc' # "idle"

\* C17: when the last successful authentication happened at time t and
\* returned expires_in = L, a private call that begins before t + L - 60 goes
\* straight to transmitting its request with the token held, and one that
\* begins at t + L - 60 or later authenticates first; the authentication is
\* then the first thing transmitted.
C17_ExpiryMargin ==
    /\ [][(CallBegins /\ IsPrivate(method_name') /\ last_auth # <<>>)
             => IF clock' < last_auth[1].time + last_auth[1].expires_in - 60
                THEN /\ cpc' = "attempt"
                     /\ bearer' = token
                     /\ token # <<>>
                ELSE cpc' = "preauth"]_vars
    /\ [][(Len(sent) = 0 /\ Len(sent') = 1)
             => sent'[1].kind = (IF cpc = "preauth" THEN "auth" ELSE "call")]_vars
    /\ [](cpc = "preauth" => sent = <<>>)

\* a call begun exactly 900 - 60 seconds after the authentication of the
\* constructor authenticated first
C17_Witness ==
    /\ IsPrivate(method_name)
    /\ last_auth # <<>>
    /\ last_auth[1].time = StartTime
    /\ clock = last_auth[1].time + last_auth[1].expires_in - 60
    /\ Len(sent) = 1
    /\ sent[1].kind = "auth"
    /\ sent[1].outcome = "timeout"
    /\ ~valid_at_start

\* C19 as stated: once set(key, v, t) has returned, get_latest(key) is the
\* entry (v, t), whatever t is and whatever the series held before.
C19_LatestIsLastSet ==
    lastOp = "set" =>
        get_latest(Whole(state, last_alert_times), lastSet.key)
            = <<Entry(lastSet.value, lastSet.timestamp)>>

\* the entries of the series that are inside the retention window at the call
RetainedAt(key, now) ==
    SelectSeq(HistoryOf(key), LAMBDA e : e.timestamp >= now - 3600)

\* C20: get_value_at_time returns the value of the entry of the retained
\* history whose timestamp is nearest to the target, the first such entry in
\* history order when several are equally near, and None when the key has no
\* retained entry.
C20_NearestFirstOnTie ==
    lookup # NoLookup =>
        LET h == RetainedAt(lookup.key, lookup.now)
            dist(i) == Abs(h[i].timestamp - lookup.target_time)
        IN IF h = <<>>
           THEN lookup.value = <<>>
           ELSE \E i \in 1..Len(h) :
                   /\ lookup.value = <<h[i].value>>
                   /\ \A j \in 1..Len(h) : dist(j) >= dist(i)
                   /\ \A j \in 1..(i - 1) : dist(j) > dist(i)

\* two retained entries are equally near to the target and hold different values
C20_Witness ==
    /\ lookup # NoLookup
    /\ lookup.target_time = StartTime - 15
    /\ LET h == RetainedAt(lookup.key, lookup.now) IN
          /\ Len(h) = 2
          /\ h[1].timestamp = StartTime - 20
          /\ h[2].timestamp = StartTime - 10
          /\ h[1].value # h[2].value
          /\ lookup.value = <<h[1].value>>

\* a step in which a method of the store was called
StoreCalled == nsets' = nsets + 1

\* C21 as stated: a set leaves the cooldown table as it was, pruning
\* included; a set_last_alert_time writes the entry of one alert key, with
\* the time of the call, and leaves every other entry as it was; no entry
\* ever leaves the table.
C21_CooldownTableFrame ==
    [][StoreCalled =>
         /\ DOMAIN last_alert_times \subseteq DOMAIN last_alert_times'
         /\ IF lastOp' = "set"
            THEN last_alert_times' = last_alert_times
            ELSE \E k \in StoreAlertKeys :
                    /\ DOMAIN last_alert_times' = DOMAIN last_alert_times \cup {k}
                    /\ last_alert_times'[k] = clock'
                    /\ \A j \in DOMAIN last_alert_times \ {k} :
                          last_alert_times'[j] = last_alert_times[j]]_vars

-----------------------------------------------------------------------------
(* Properties of the store and its snapshot file *)

\* a step in which set or set_last_alert_time was called
UpdateCalled == StoreCalled /\ lastOp' \in {"set", "set_last_alert_time"}

\* self.state before and after the step
WholeBefore == Whole(state, last_alert_times)
WholeAfter == Whole(state', last_alert_times')

\* the update of the call is held in memory after the step
UpdateHeld ==
    IF lastOp' = "set"
    THEN /\ lastSet'.key \in DOMAIN WholeAfter
         /\ WholeAfter[lastSet'.key].latest = Entry(lastSet'.value, lastSet'.timestamp)
    ELSE \E alert_key \in PersistAlertKeys :
            /\ alert_key \in DOMAIN last_alert_times'
            /\ last_alert_times'[alert_key] = clock'

\* no history under the keys holds an entry older than the retention window
\* at the time of the call
PrunedUnder(keys) ==
    \A key \in keys :
        (IsDict(WholeAfter[key]) /\ Has(WholeAfter[key], "history")) =>
            \A e \in SeqToSet(WholeAfter[key].history) :
                e.timestamp >= RetentionCutoff(clock')

\* the text of the file is the memory of the store
SnapshotIsMemory ==
    /\ Decode(file').ok
    /\ SeriesOf(Decode(file').value) = state'
    /\ TableOf(Decode(file').value) = last_alert_times'

\* a store constructed on the file now would hold the same series and the
\* same cooldown table
SnapshotLoadsBack ==
    /\ ~Load(file').raised
    /\ SeriesOf(Load(file').whole) = state'
    /\ TableOf(Load(file').whole) = last_alert_times'

\* a store constructed on the file now would be empty
SnapshotLoadsEmpty == ~Load(file').raised /\ Load(file').whole = << >>

\* a store is constructed on the file a successful write left: it holds what
\* the store that wrote holds
ConstructedTheSame ==
    (StoreCalled /\ lastOp' = "construct" /\ file.saved = "ok") =>
        /\ state' = state
        /\ last_alert_times' = last_alert_times

\* a store is constructed on the file a successful write left: it holds what
\* the store that wrote holds when the file may be read, and nothing when
\* it may only be written
ConstructedTheSameIfReadable ==
    (StoreCalled /\ lastOp' = "construct" /\ file.saved = "ok") =>
        IF file.status = "present"
        THEN state' = state /\ last_alert_times' = last_alert_times
        ELSE state' = << >> /\ last_alert_times' = << >>

\* C22 as stated: every set and set_last_alert_time returns with every
\* series pruned to the retention window and with its update held in memory,
\* whether the write succeeded or not; when the write succeeded the file
\* loads back to the same series and the same cooldown table, and a store
\* constructed on it holds them.
C22_SnapshotEqualsMemory ==
    /\ [][UpdateCalled =>
            /\ PrunedUnder(DOMAIN WholeAfter)
            /\ UpdateHeld
            /\ file'.saved = "ok" => (SnapshotIsMemory /\ SnapshotLoadsBack)]_vars
    /\ [][ConstructedTheSame]_vars

\* C22 amended: every set and set_last_alert_time returns with the series
\* pruned whose keys do not start with an underscore and are not
\* "last_alert_times", and with its update held in memory, whether the write
\* succeeded or not; when the write succeeded the text of the file is the
\* memory of the store; a store constructed on it holds the same series and
\* the same cooldown table when the process may read the file, and is empty
\* when it may only write it.
C22_SnapshotEqualsPrunedMemory ==
    /\ [][UpdateCalled =>
            /\ PrunedUnder({key \in DOMAIN WholeAfter : ~Skipped(key)})
            /\ UpdateHeld
            /\ file'.saved = "ok" =>
                  /\ SnapshotIsMemory
                  /\ IF file'.status = "present" THEN SnapshotLoadsBack
                     ELSE SnapshotLoadsEmpty]_vars
    /\ [][ConstructedTheSameIfReadable]_vars

\* a store constructed on a file written by a call that succeeded holds a
\* series, a cooldown entry, and under the key with an underscore the entry
\* older than the retention window that the file was found with
C22_Witness ==
    /\ lastOp = "construct"
    /\ file.saved = "ok"
    /\ lastSet # NoSet
    /\ lastSet.key \in DOMAIN state
    /\ state[lastSet.key].history # <<>>
    /\ "dvol_change" \in DOMAIN last_alert_times
    /\ "_meta" \in DOMAIN state
    /\ state["_meta"].history = <<Entry(1, StartTime - 3601)>>

\* the file cannot be used: it is missing, cannot be opened or reached, or
\* its text is not a JSON value
Unusable(f) == f.status # "present" \/ ~Decode(f).ok

\* C23 as stated: constructing a store on a file that is missing or cannot
\* be read or decoded succeeds, and the store is empty: no series and no
\* cooldown entry.
C23_UnreadableFileGivesEmptyStore ==
    (lastOp \in {"none", "construct", "construct_raised"} /\ Unusable(file)) =>
        /\ Constructed
        /\ state = << >>
        /\ last_alert_times = << >>

\* the store as the pruning of the call finds it
BeforePruning ==
    IF lastOp' = "set"
    THEN SetInMemory(WholeBefore, lastSet'.key, lastSet'.value, lastSet'.timestamp)
    ELSE SetLastAlertInMemory(WholeBefore, CHOOSE k \in PersistAlertKeys : TRUE, clock')

\* the pruned history of key is empty and key has no latest marker
EmptyAndUnmarked(key) ==
    /\ SelectSeqBy(HistoryOrEmpty(BeforePruning[key]), RetentionCutoff(clock')) = <<>>
    /\ ~Has(BeforePruning[key], "latest")

\* C24 as stated: the pruning of a call deletes a key exactly when its pruned
\* history is empty and it has no latest marker, and a key that has a latest
\* marker stays.
C24_DeletedWhenEmptyAndUnmarked ==
    [][UpdateCalled =>
         /\ \A key \in DOMAIN BeforePruning \ {TableKey} :
               key \notin DOMAIN WholeAfter <=> EmptyAndUnmarked(key)
         /\ \A key \in DOMAIN WholeBefore \ {TableKey} :
               Has(WholeBefore[key], "latest") => key \in DOMAIN WholeAfter]_vars

\* C24 amended: the pruning of a call deletes a key exactly when the key
\* does not start with an underscore, is not "last_alert_times", holds a
\* dictionary, and either that has a history, the pruned history is empty
\* and there is no latest marker, or it has no history and has a timestamp
\* older than the retention window; a key that has a history and a latest
\* marker stays, even with an empty history.
C24_SeriesKeyDeletedWhenEmptyAndUnmarked ==
    [][UpdateCalled =>
         /\ \A key \in DOMAIN BeforePruning :
               key \notin DOMAIN WholeAfter <=>
                  /\ ~Skipped(key)
                  /\ IsDict(BeforePruning[key])
                  /\ IF Has(BeforePruning[key], "history")
                     THEN EmptyAndUnmarked(key)
                     ELSE /\ Has(BeforePruning[key], "timestamp")
                          /\ BeforePruning[key].timestamp < RetentionCutoff(clock')
         /\ \A key \in DOMAIN WholeBefore :
               (IsDict(WholeBefore[key]) /\ Has(WholeBefore[key], "history")
                    /\ Has(WholeBefore[key], "latest"))
                  => key \in DOMAIN WholeAfter]_vars

\* the file as json.load reads it
FileHolds == Decode(file).value

\* the first call pruned at a time when the histories of "A" and "B" had
\* expired: "B", loaded without a latest marker, is gone, and "A", which has
\* one, stays with an empty history (the write failed, the file still lists "B")
C24_Witness ==
    /\ lastOp = "set_last_alert_time"
    /\ nsets = 1
    /\ Decode(file).ok /\ file.saved = "open_fails"
    /\ "B" \in DOMAIN FileHolds
    /\ FileHolds["B"] = Unmarked(<<Entry(1, StartTime - 3599)>>)
    /\ "B" \notin DOMAIN state
    /\ "A" \in DOMAIN state
    /\ state["A"].history = <<>>
    /\ Has(state["A"], "latest")

-----------------------------------------------------------------------------
(* Properties of the evaluator: the enable flag, the cycle boundary *)

\* the writes _check_positions makes for positions, whatever the flag
RECURSIVE PositionWrites(_)
PositionWrites(positions) ==
    IF positions = <<>> THEN <<>>
    ELSE <<[key |-> Head(positions).instrument_name,
            value |-> PositionValue(Head(positions)),
            timestamp |-> current_time]>> \o PositionWrites(Tail(positions))

\* the write _check_dvol makes for the answer data, whatever the flag
DvolWrites(data) ==
    IF data = <<>> THEN <<>>
    ELSE <<[key |-> "dvol", value |-> data[1], timestamp |-> current_time]>>

\* the levels of the positions are evaluated: every position at or above the
\* light Gamma threshold has its candidate in the log of the step
GammaEvaluated ==
    \A i \in 1..Len(all_positions) :
        LET sev == GammaSeverity(all_positions[i].gamma, gamma_level_1_light,
                                 gamma_level_2_medium, gamma_level_3_heavy)
        IN sev # <<>> =>
             \E e \in NewAlerts :
                e.key = all_positions[i].instrument_name \o "_gamma_level_" \o sev[1]

\* C25: with the enable flag false no delivery is ever attempted and the
\* cooldown table is never written, over any number of cycles; the series
\* receive the same writes whatever the flag is, and the levels are still
\* evaluated.
C25_DisabledNeverDelivers ==
    /\ [](~enable_alert =>
            /\ \A i \in 1..Len(alerts) : ~alerts[i].attempted /\ ~alerts[i].success
            /\ last_alert_times = << >>
            /\ failures = 0)
    /\ [][(pc = "positions" /\ pc' = "dvol") =>
            /\ writes' = writes \o PositionWrites(all_positions)
            /\ GammaEvaluated]_vars
    /\ [][(pc = "check_dvol" /\ cycle_result' = "completed") =>
            writes' = writes \o DvolWrites(dvol_data)]_vars

\* with the flag false a second cycle has evaluated a candidate that no
\* cooldown holds back, has not delivered it, and has written the series
C25_Witness ==
    /\ ~enable_alert
    /\ cycles = 2
    /\ Len(alerts) >= 2
    /\ \A i \in 1..Len(alerts) : alerts[i].eligible /\ ~alerts[i].attempted
    /\ \E i \in 1..Len(alerts) : \E j \in 1..Len(alerts) :
          i < j /\ alerts[i].key = alerts[j].key /\ alerts[j].time - alerts[i].time < cooldown_seconds
    /\ writes # <<>>

\* C29: a cycle that raised, in a query, in the positions check or in the
\* index check, is caught at the cycle boundary: the loop is then between
\* two cycles, never stopped; the step that follows is the start of the next
\* cycle, whose cycle time is read one poll interval later and whose queries
\* take the time their retries wait; and the loop goes on to run every cycle
\* up to the bound of the exploration, whichever cycles raised and whichever
\* deliveries failed.
C29_CaughtAtCycleBoundary ==
    /\ [](pc \in {"idle", "positions", "dvol", "check_dvol"})
    /\ [](cycle_result = "caught" => pc = "idle")
    /\ [][cycle_result = "caught" =>
            /\ current_time' - clock \in PollSteps
            /\ clock' >= current_time'
            /\ cycles' = cycles \/ (cycles' = cycles + 1 /\ cycle_result' = "caught")]_vars
    /\ <>(cycles = MaxCycles)

\* a cycle wrote the index and failed a delivery, and the cycle after it
\* raised in the index check: the index had been read and nothing was written
C29_Witness ==
    /\ cycle_result = "caught"
    /\ pc = "idle"
    /\ cycles > 1
    /\ dvol_data # <<>>
    /\ writes = <<>>
    /\ HistoryOf("dvol") # <<>>
    /\ failures > 0

-----------------------------------------------------------------------------
(* Properties of the index check *)

\* a step of _check_dvol that found history and made the trend comparison
TrendCompared == pc = "check_dvol" /\ pc' = "idle" /\ trend' # <<>>

\* e is an entry of the series nearest to target_time
NearestIn(e, history, target_time) ==
    /\ e \in SeqToSet(history)
    /\ \A f \in SeqToSet(history) :
          Abs(e.timestamp - target_time) <= Abs(f.timestamp - target_time)

\* C26 as stated: the previous value of the trend comparison is the value of
\* an entry of the whole retained history of "dvol" whose timestamp is
\* nearest to the cycle time minus 5 minutes.
C26_PreviousFromWholeHistory ==
    [][TrendCompared =>
         \E e \in SeqToSet(HistoryOf("dvol")) :
            /\ NearestIn(e, HistoryOf("dvol"), current_time - 300)
            /\ trend'[1].previous = e.value]_vars

\* the trend candidate as the logged fraction and difference decide it:
\* above a threshold, or exactly at it with doubles whose roundings carry the
\* computed quotient or difference above the threshold as it is held
TrendCandidate(t) ==
    LET c == t.current
        p == t.previous
    IN \/ Abs(t.pct_change.num) * 100 > pct_threshold_percent * Abs(t.pct_change.den)
       \/ Abs(t.abs_change) > abs_change_threshold
       \/ /\ Abs(t.pct_change.num) * 100 = pct_threshold_percent * Abs(t.pct_change.den)
          /\ 20 * AbsDifferenceError(c, p) - RoundingError(Abs(p)) > 18 * Abs(p)
       \/ /\ Abs(t.abs_change) = abs_change_threshold
          /\ 10 * AbsDifferenceError(c, p) > abs_change_threshold * Ulp(abs_change_threshold)

\* C27: pct_change is (c - p) / p, and 0 when p is 0; abs_change is c - p;
\* the trend alert is a candidate exactly when |pct_change| is above 5 % or
\* |abs_change| is above 5.0, both strictly and both as the doubles computed
\* from the doubles of c and p: 52.5 against 50.0 and 125.0 against 120.0 are
\* not candidates, 23.1 against 22.0 (quotient 0.050000000000000044) and
\* 128.3 against 123.3 (difference 5.000000000000014) are; p = 50.0 and
\* c = 55.0 give +0.10 and +5.0, p = 0 and c = 5.0 give 0 and +5.0.
\* (Values in tenths.)
C27_TrendNumerics ==
    [][TrendCompared =>
         LET t == trend'[1]
             p == t.previous
             c == t.current
         IN /\ c = dvol_data'[1]
            /\ t.abs_change = c - p
            /\ t.pct_change.den # 0
            /\ IF p = 0 THEN t.pct_change.num = 0
               ELSE t.pct_change.num * p = (c - p) * t.pct_change.den
            /\ (\E e \in NewAlerts : e.key = "dvol_change") <=> TrendCandidate(t)
            /\ (p = 500 /\ c = 550) =>
                  /\ t.pct_change.num * 10 = t.pct_change.den
                  /\ t.abs_change = 50
            /\ (p = 0 /\ c = 50) =>
                  /\ t.pct_change.num = 0
                  /\ t.abs_change = 50
                  /\ ~\E e \in NewAlerts : e.key = "dvol_change"
            /\ (<<p, c>> \in {<<500, 525>>, <<1200, 1250>>}) =>
                  ~\E e \in NewAlerts : e.key = "dvol_change"
            /\ (<<p, c>> \in {<<220, 231>>, <<1233, 1283>>}) =>
                  \E e \in NewAlerts : e.key = "dvol_change"]_vars

\* the comparison of 52.5 against 50.0: exactly 5 %, +2.5, and no candidate
C27_Witness ==
    /\ trend # <<>>
    /\ trend[1].previous = 500 /\ trend[1].current = 525
    /\ trend[1].abs_change = 25
    /\ trend[1].pct_change.num * 100 = pct_threshold_percent * trend[1].pct_change.den
    /\ alerts = <<>>

\* the keys of the candidates of a comparison of c against p, in the order
\* they are decided
SpecificCandidate(c) ==
    IF \E i \in 1..Len(specific_values) :
          Abs(c - specific_values[i]) <= specific_value_tolerance
    THEN <<"dvol_specific_70.0">> ELSE <<>>
AbsCandidate(c) == IF c >= abs_value_threshold THEN <<"dvol_abs_value">> ELSE <<>>
ChangeCandidate(c, p) ==
    IF PctExceeds(c, p) \/ AbsChangeExceeds(c, p)
    THEN <<"dvol_change">> ELSE <<>>
CandidateKeys(c, p) == SpecificCandidate(c) \o AbsCandidate(c) \o ChangeCandidate(c, p)

\* C28: in a cycle where the index has history the candidates are the
\* specific-value rule when the current value is within the tolerance of a
\* target, then the absolute-value rule, then the trend rule; they are
\* decided in that order, each against the cooldown entry of its own key as
\* it was before the cycle, and each eligible one is delivered.
C28_ThreeRulesInOrder ==
    [][TrendCompared =>
         LET keys == CandidateKeys(dvol_data'[1], trend'[1].previous) IN
         /\ Len(alerts') = Len(alerts) + Len(keys)
         /\ \A i \in 1..Len(keys) :
               LET e == alerts'[Len(alerts) + i] IN
               /\ e.key = keys[i]
               /\ e.last = get_last_alert_time(last_alert_times, keys[i])
               /\ e.eligible <=>
                     (\/ keys[i] \notin DOMAIN last_alert_times
                      \/ current_time - last_alert_times[keys[i]] >= cooldown_seconds)
               /\ e.attempted <=> e.eligible]_vars

\* the three alerts are delivered in one cycle
C28_Witness ==
    /\ Len(alerts) = 3
    /\ alerts[1].key = "dvol_specific_70.0" /\ alerts[1].success
    /\ alerts[2].key = "dvol_abs_value" /\ alerts[2].success
    /\ alerts[3].key = "dvol_change" /\ alerts[3].success
    /\ DOMAIN last_alert_times = DvolAlertKeys
    /\ \A k \in DvolAlertKeys : last_alert_times[k] = current_time

-----------------------------------------------------------------------------
(* Properties of the positions query *)

\* the records of the answer that are not discarded, in order
RECURSIVE KeptRecords(_)
KeptRecords(records) ==
    IF records = <<>> THEN <<>>
    ELSE IF Abs(Head(records).size) >= epsilon
         THEN <<Head(records)>> \o KeptRecords(Tail(records))
         ELSE KeptRecords(Tail(records))

\* C30: the positions returned are those of the records whose |size| is at
\* least 1e-8, in order; each has the absolute value of the raw size as its
\* size, direction "buy" exactly when the raw size is positive and "sell"
\* otherwise, and Gamma and Vega that are not negative; a record with
\* |size| < 1e-8 gives no position, and the call returns.
C30_PositionsNormalised ==
    option_positions # <<>> =>
        LET returned == option_positions[1]
            kept == KeptRecords(raw_result.records)
        IN /\ Len(returned) = Len(kept)
           /\ \A i \in 1..Len(returned) :
                 /\ returned[i].size = Abs(kept[i].size)
                 /\ returned[i].size >= epsilon
                 /\ returned[i].direction = "buy" <=> kept[i].size > 0
                 /\ returned[i].direction = "sell" <=> ~(kept[i].size > 0)
                 /\ returned[i].gamma.num >= 0 /\ returned[i].gamma.den > 0
                 /\ returned[i].vega.num >= 0 /\ returned[i].vega.den > 0

\* a list of a short position with negative Greeks and a record of size
\* 0.5e-8 gives one position, a sell
C30_Witness ==
    /\ option_positions # <<>>
    /\ raw_result.kind = "list"
    /\ Len(raw_result.records) = 2
    /\ raw_result.records[1].size = -4 /\ raw_result.records[1].gamma = -3
    /\ order_books[1].status = "failed"
    /\ raw_result.records[2].size = -1
    /\ Len(option_positions[1]) = 1
    /\ option_positions[1][1].direction = "sell"
    /\ option_positions[1][1].size = 4
    /\ option_positions[1][1].gamma = Exact(3)

-----------------------------------------------------------------------------
(* Properties of the decoding *)

\* C31 as stated: whatever fields of a position record or of the index bucket
\* are missing, null or of another type, both queries return and the cycle
\* runs to its end: no cycle is cut short by an exception, and the positions
\* query has returned in every cycle that ended.
C31_AnomaliesDegrade ==
    /\ cycle_result # "caught"
    /\ cycles = 1 => option_positions # <<>>

\* the call in progress, or the last call, is of a public method
PublicCall == method_name # "" /\ ~IsPrivate(method_name)

\* C32: a call of a method without the private prefix never authenticates,
\* neither before its request is sent nor after a stale-token error, sends
\* no bearer token and leaves the token of the client as it was; and every
\* authentication is itself sent as the public method public/auth, without
\* a bearer token, and one answered with the stale-token error is the last
\* thing its call sends.
C32_PublicNeverAuthenticates ==
    /\ [](PublicCall =>
            /\ cpc \notin {"preauth", "reauth"}
            /\ \A i \in 1..Len(sent) : sent[i].kind = "call" /\ sent[i].bearer = <<>>)
    /\ [](\A i \in 1..Len(sent) :
            sent[i].kind = "auth" =>
                /\ sent[i].method = "public/auth"
                /\ ~IsPrivate(sent[i].method)
                /\ sent[i].bearer = <<>>
                /\ sent[i].outcome = "error_stale" => (i = Len(sent) /\ cpc = "idle"))
    /\ [][PublicCall' => UNCHANGED <<token, token_expires_at, issued, last_auth>>]_vars

\* a public call made when the token held had expired was answered with the
\* stale-token error: it was sent once, without a token, and failed
C32_Witness ==
    /\ PublicCall
    /\ Finished
    /\ ~valid_at_start
    /\ Len(sent) = 1
    /\ sent[1].outcome = "error_stale"
    /\ sent[1].bearer = <<>>
    /\ result = "failure"

-----------------------------------------------------------------------------
(* The index stage after a failed or empty positions fetch *)

\* a query of the cycle exhausted its retries
SomeQueryFailed == \E i \in 1..Len(query_results) : query_results[i].kind = "none"

\* every query of the cycle returned, and one failed or none returned a
\* position
FailedOrEmpty ==
    /\ Len(query_results) = Len(currencies)
    /\ SomeQueryFailed \/ Extend(query_results) = <<>>

\* a query of the cycle raised after the queries before it had returned, one
\* of them having failed
RaisedAfterFailure == Len(query_results) < Len(currencies) /\ SomeQueryFailed

\* C33: a cycle whose positions queries failed, for some or all currencies,
\* or returned nothing still reads and checks the volatility index: after
\* the queries the cycle is at the positions check or at the index stage,
\* the positions check is followed by the index query, the index query by
\* the index check unless it raised, and the cycle ends only by a step of
\* the index stage, whose check writes the observation obtained.  Where the
\* index is not reached after a query failed, a later query of the cycle
\* raised and run() caught it.
C33_FailedFetchKeepsIndexStage ==
    /\ [](FailedOrEmpty =>
            \/ pc \in {"positions", "dvol", "check_dvol"}
            \/ pc = "idle" /\ cycles = 1 /\ cycle_result \in {"completed", "caught"})
    /\ [][FailedOrEmpty /\ pc = "positions" => pc' = "dvol"]_vars
    /\ [][FailedOrEmpty /\ pc = "dvol" =>
            \/ pc' = "check_dvol" /\ cycles' = cycles
            \/ pc' = "idle" /\ cycles' = cycles + 1 /\ cycle_result' = "caught"]_vars
    /\ [][FailedOrEmpty /\ pc = "check_dvol" =>
            /\ pc' = "idle"
            /\ cycles' = cycles + 1
            /\ cycle_result' = "completed"
            /\ writes' = writes \o DvolWrites(dvol_data)]_vars
    /\ [](RaisedAfterFailure => pc = "idle" /\ cycles = 1 /\ cycle_result = "caught")

\* every query of the cycle failed and the index was read and written
C33_Witness ==
    /\ Len(query_results) = Len(currencies)
    /\ \A i \in 1..Len(query_results) : query_results[i].kind = "none"
    /\ cycle_result = "completed"
    /\ dvol_data = <<700>>
    /\ writes = <<[key |-> "dvol", value |-> 700, timestamp |-> current_time]>>
    /\ "dvol" \in DOMAIN state

-----------------------------------------------------------------------------
(* The remote methods issued *)

\* the authentication, positions, open-orders, order-book and index queries
ReadOnlyMethods ==
    {"public/auth", "private/get_positions", "private/get_open_orders_by_currency",
     "public/get_order_book", "public/get_volatility_index_data"}

\* C34: every request transmitted, by a query function or by an
\* authentication made for it, names one of the five read-only methods; an
\* authentication names public/auth and a query names the method of its call.
C34_OnlyReadOnlyMethods ==
    \A i \in 1..Len(sent) :
        /\ sent[i].method \in ReadOnlyMethods
        /\ sent[i].kind = "auth" => sent[i].method = "public/auth"
        /\ sent[i].kind # "auth" => sent[i].method = method_name /\ method_name # "public/auth"

\* a positions query authenticated, was refused with the stale-token error,
\* authenticated again and was answered
C34_Witness ==
    /\ method_name = "private/get_positions"
    /\ result = "value"
    /\ Len(sent) = 4
    /\ sent[1].method = "public/auth"
    /\ sent[2].method = "private/get_positions" /\ sent[2].outcome = "error_stale"
    /\ sent[3].method = "public/auth"
    /\ sent[4].method = "private/get_positions" /\ sent[4].outcome = "result"

-----------------------------------------------------------------------------
(* The order of a series *)

\* C35: on a store that started empty, after any calls of set and
\* set_last_alert_time, the history of every key is in ascending order of
\* timestamp and any two of its entries are more than 1 second apart.
C35_HistoryAscendingAndApart ==
    \A key \in DOMAIN Whole(state, last_alert_times) :
        \A i \in 1..Len(HistoryOf(key)) : \A j \in 1..Len(HistoryOf(key)) :
            i < j => HistoryOf(key)[j].timestamp - HistoryOf(key)[i].timestamp > 1

\* the last set was given a timestamp between those of two entries that are
\* held, 2 seconds before the later one, and its entry stands between them
C35_Witness ==
    /\ lastOp = "set"
    /\ Len(HistoryOf(lastSet.key)) = 3
    /\ HistoryOf(lastSet.key)[2] = Entry(lastSet.value, lastSet.timestamp)
    /\ HistoryOf(lastSet.key)[3].timestamp = lastSet.timestamp + 2

-----------------------------------------------------------------------------
(* Deliveries of one alert key within a cycle *)

\* entries i and j of the log are deliveries of one key made in one cycle
SameKeySameCycle(i, j) ==
    /\ alerts[i].key = alerts[j].key
    /\ alerts[i].time = alerts[j].time

\* C36: with a cooldown above 0, no alert key is delivered successfully
\* twice in a cycle, however many of the currency queries returned its
\* instrument; a candidate that follows a successful delivery of its key in
\* the same cycle is not eligible.
C36_OncePerCycle ==
    cooldown_seconds > 0 =>
        \A i \in 1..Len(alerts) : \A j \in 1..Len(alerts) :
            (i < j /\ SameKeySameCycle(i, j) /\ alerts[i].success)
                => (~alerts[j].eligible /\ ~alerts[j].attempted /\ ~alerts[j].success)

\* three queries returned the instrument: its alert was delivered at the
\* first check and held back at the other two
C36_Witness ==
    /\ cooldown_seconds > 0
    /\ Len(Extend(query_results)) = 3
    /\ pc = "dvol"
    /\ Len(alerts) = 3
    /\ alerts[1].success
    /\ SameKeySameCycle(1, 2) /\ ~alerts[2].eligible
    /\ SameKeySameCycle(1, 3) /\ ~alerts[3].eligible

-----------------------------------------------------------------------------
(* Eligibility by alert key *)

\* the firing time the log holds for the key of entry i when the entry was
\* made: the time of the last successful delivery of that key before it
LastFiring(i) ==
    LET earlier == {j \in 1..(i - 1) : alerts[j].key = alerts[i].key /\ alerts[j].success}
    IN IF earlier = {} THEN <<>>
       ELSE <<alerts[CHOOSE j \in earlier : \A k \in earlier : k <= j].time>>

\* C37: a candidate is checked against the last firing of its own key and
\* nothing else: it is eligible exactly when its key was never delivered or
\* was last delivered at least the cooldown ago, whatever firings the table
\* holds for other tiers, metrics or instruments.
C37_EligibilityByOwnKey ==
    \A i \in 1..Len(alerts) :
        /\ alerts[i].last = LastFiring(i)
        /\ alerts[i].eligible <=>
              \/ LastFiring(i) = <<>>
              \/ alerts[i].time - LastFiring(i)[1] >= cooldown_seconds

\* the light Gamma alert of an instrument was delivered, and a cycle later,
\* inside the cooldown of the light tier, its medium alert was delivered too
C37_Witness ==
    \E i \in 1..Len(alerts) : \E j \in 1..Len(alerts) :
        /\ alerts[i].key = "A_gamma_level_light" /\ alerts[i].success
        /\ alerts[j].key = "A_gamma_level_medium" /\ alerts[j].success
        /\ alerts[j].time > alerts[i].time
        /\ alerts[j].time - alerts[i].time < cooldown_seconds
        /\ get_last_alert_time(last_alert_times, "A_gamma_level_light") = <<alerts[i].time>>

-----------------------------------------------------------------------------
(* One write for each observation of a cycle *)

\* the records of the cycle's fetch that name an instrument, and the writes
\* a step added under a key
RecordsOf(name) == {i \in 1..Len(all_positions) : all_positions[i].instrument_name = name}
WritesAdded(key) == {i \in (Len(writes) + 1)..Len(writes') : writes'[i].key = key}

\* after the step the series of key holds one entry for the cycle, with value v
OneEntryForCycle(key, v) ==
    /\ key \in DOMAIN state'
    /\ \E i \in 1..Len(state'[key].history) :
          /\ state'[key].history[i] = Entry(v, current_time)
          /\ \A j \in 1..Len(state'[key].history) :
                state'[key].history[j].timestamp = current_time => j = i

\* C38: the positions check writes each record of the fetch once, under
\* its instrument and with the time the cycle started, and the index stage
\* writes the observation it obtained once, with the same time, and nothing
\* when it obtained none; the series then holds one entry for the cycle.
\* This is so whatever history the series held and whatever became of the
\* alerts of the step.
C38_OneWritePerObservation ==
    /\ [][(pc = "positions" /\ pc' = "dvol") =>
            /\ Len(writes') = Len(writes) + Len(all_positions)
            /\ \A i \in 1..Len(all_positions) :
                  LET name == all_positions[i].instrument_name IN
                  /\ Cardinality(WritesAdded(name)) = Cardinality(RecordsOf(name))
                  /\ \A k \in WritesAdded(name) : writes'[k].timestamp = current_time
                  /\ \E k \in WritesAdded(name) :
                        writes'[k].value = PositionValue(all_positions[i])
                  /\ \E r \in RecordsOf(name) :
                        /\ \A q \in RecordsOf(name) : q <= r
                        /\ OneEntryForCycle(name, PositionValue(all_positions[r]))]_vars
    /\ [][(pc = "check_dvol" /\ cycle_result' = "completed") =>
            IF dvol_data = <<>> THEN writes' = writes /\ state' = state
            ELSE /\ Len(writes') = Len(writes) + 1
                 /\ writes'[Len(writes')] =
                       [key |-> "dvol", value |-> dvol_data[1], timestamp |-> current_time]
                 /\ OneEntryForCycle("dvol", dvol_data[1])]_vars

\* in a second cycle an instrument with history was written although its
\* alert was held back by the cooldown, and the index was then written
\* after an alert of the index was delivered
C38_Witness ==
    /\ cycles = 2
    /\ cycle_result = "completed"
    /\ \E i \in 1..Len(writes) : writes[i].key = "A" /\ writes[i].timestamp = current_time
    /\ writes[Len(writes)].key = "dvol"
    /\ Len(HistoryOf("A")) = 2
    /\ Len(HistoryOf("dvol")) = 2
    /\ \E i \in 1..Len(alerts) :
          alerts[i].key = "A_gamma_level_light" /\ alerts[i].time = current_time /\ ~alerts[i].eligible
    /\ \E i \in 1..Len(alerts) :
          alerts[i].key = "dvol_abs_value" /\ alerts[i].time = current_time /\ alerts[i].success

-----------------------------------------------------------------------------
(* Two stores on one snapshot file *)

\* the step is the write of the save of process who
Wrote(who) == procs[who].pc = "opened" /\ procs'[who].pc = "idle"

\* C39: a save that leaves a readable file leaves in it exactly the memory
\* of the process that saved, whatever the other process had written there;
\* no step of one process changes the memory of the other, which reads the
\* file at construction only; and each process spaces its own deliveries of
\* a key by the cooldown.  So an update one process persisted can be gone
\* from the file after the other's save, and the two can deliver one key
\* within one cooldown window.
C39_WholeFileRewrite ==
    /\ [][\A who \in Processes :
            /\ (Wrote(who) /\ Decode(file').ok) => Decode(file').value = MemoryOf(who)
            /\ (procs'[who] # procs[who] /\ procs[Other(who)].pc # "unstarted") =>
                  /\ procs'[Other(who)] = procs[Other(who)]
                  /\ IF who = "own" THEN peer' = peer
                     ELSE state' = state /\ last_alert_times' = last_alert_times]_vars
    /\ [](\A i \in 1..Len(alerts) : \A j \in 1..Len(alerts) :
             (i < j /\ alerts[i].key = alerts[j].key /\ alerts[i].by = alerts[j].by)
                => alerts[j].time - alerts[i].time >= cooldown_seconds)

\* the first process persisted an observation and a firing; the second,
\* constructed before them, then delivered the same key 60 s later and
\* saved: the file holds neither the observation nor the first firing time,
\* and both deliveries were made
C39_Witness ==
    /\ Len(writes) = 1 /\ writes[1].by = "own" /\ writes[1].persisted
    /\ Len(alerts) = 2
    /\ alerts[1].by = "own" /\ alerts[1].persisted
    /\ alerts[2].by = "peer" /\ alerts[2].persisted
    /\ alerts[1].key = alerts[2].key
    /\ alerts[2].time - alerts[1].time = 60
    /\ alerts[2].time - alerts[1].time < cooldown_seconds
    /\ procs.own.pc = "idle" /\ procs.peer.pc = "idle"
    /\ writes[1].key \in DOMAIN state
    /\ Decode(file).ok
    /\ DOMAIN FileHolds = {TableKey}
    /\ DOMAIN FileHolds[TableKey] = {alerts[2].key}
    /\ FileHolds[TableKey][alerts[2].key] = alerts[2].time
    /\ last_alert_times[alerts[1].key] = alerts[1].time

====
